---- MODULE Spec2Model ----
(***************************************************************************)
(* Boot-negotiation pipeline of the bare-metal infra provider:             *)
(*   - internal/dhcp/proxy.go : validateDHCP, offerDHCP, handlePacket,     *)
(*                              Proxy.Run                                  *)
(*   - internal/ipxe          : patchScript (src/unnamed/part_002)         *)
(* Pure functions are operators computed the way the Go code computes      *)
(* them; each is exercised by a small harness specification whose Init     *)
(* draws the inputs.                                                       *)
(***************************************************************************)
EXTENDS Integers, Sequences, FiniteSets, TLC

(***************************************************************************)
(* Bounds of the model.                                                    *)
(***************************************************************************)
\* longest client-architecture list (option 93) that is enumerated
MaxArchLen == 3
\* longest client machine identifier (option 97) that is enumerated
MaxGuidLen == 18
\* number of packets the DHCP server receives in one run of the proxy
MaxPackets == 2
\* number of packets read while the shutdown of the proxy is followed
MaxInFlight == 1
\* number of chunks (markers, filler bytes) a source image is made of
MaxImageChunks == 4
\* number of chunks a boot script is made of
MaxScriptChunks == 2
\* number of patchScript calls on the same source, destination and script
MaxPatchCalls == 2
\* length of the longest requested TFTP file name that is enumerated
MaxNameLen == 8
\* number of TFTP read sessions in one run of the TFTP server
MaxSessions == 2

(***************************************************************************)
(* DHCP options.  Options.Get(code) of the dhcpv4 library returns nil for  *)
(* an option that is not in the packet; len(nil) is 0.                     *)
(***************************************************************************)
None == [set |-> FALSE, val |-> <<>>]
Some(v) == [set |-> TRUE, val |-> v]

\* ---- type Firmware int (iota) -----------------------------------------
FirmwareUnsupported == 0
FirmwareX86PC == 1
FirmwareX86EFI == 2
FirmwareARMEFI == 3
FirmwareX86Ipxe == 4
FirmwareX86HTTP == 5
FirmwareARMHTTP == 6

\* ---- iana.Arch values the switch of validateDHCP names, and two it does
\* ---- not name
RecognizedArchs ==
  {"INTEL_X86PC", "EFI_IA32", "EFI_X86_64", "EFI_BC", "EFI_ARM64",
   "EFI_X86_HTTP", "EFI_X86_64_HTTP", "EFI_ARM64_HTTP"}
ArchCodes == RecognizedArchs \cup {"EFI_ITANIUM", "EFI_ARM32_HTTP"}

\* ---- errors -------------------------------------------------------------
ErrNil == "nil"
ErrUnsupportedArch == "unsupported client arch"
ErrGuidLeadingByte == "malformed client GUID (option 97), leading byte must be zero"
ErrGuidWrongSize == "malformed client GUID (option 97), wrong size"

VARIABLES
  m,      \* validateDHCP harness: the packet handed to validateDHCP
  vret,   \* validateDHCP harness: what validateDHCP returned (or NotCalled)
  oin,    \* offerDHCP harness: the arguments (req, apiHost, apiPort, fwtype)
          \*   and the outcome of the library's reply constructor
  oret,   \* offerDHCP harness: what offerDHCP returned (or OfferNotCalled)
  cfg,      \* Proxy{apiHost, apiPort}
  ctxDone,  \* the context of Proxy.Run (the errgroup's) is cancelled
  sock,     \* the server's UDP socket: "none", "open", "closed"
  serve,    \* the goroutine running server.Serve(): [pc, err]
  closer,   \* the goroutine waiting for ctx.Done() to close the server
  run,      \* Proxy.Run itself: [pc, err]
  handlers, \* one goroutine per received packet ("go s.Handler(...)")
  sent,     \* per handler, the conn.WriteTo calls it made, in order
  psrc,     \* patchScript harness: the source image file [exists, data]
  pdst,     \* patchScript harness: the destination file [exists, data]
  pscript,  \* patchScript harness: the script argument
  prov,     \* Provider.Run itself: [pc, err]
  patch,    \* patchBinaries: [step, failed, files, err, zbin]
  peg,      \* Provider.Run's errgroup: [parent, ctx, done, err]
  srv,      \* server.Server.Run: [pc, ctx, listen, stopper, shut, err]
  tun,      \* omni.Client.RunReverseTunnel: [pc, err]
  tftp,     \* tftp.Server.Run: [pc, ctx, listen, stopper, shut, err, sessions]
  pret,     \* patchScript harness: [n, err, ok, first]: calls made, error of
            \* the last, calls that succeeded, destination after the first
            \* of them
  boot,     \* the embedded boot script run by iPXE: [pc, n, x, idx, sweeps, tried]
  svc,      \* a ProviderServiceServer call: [op, pc, id, ...]
  machines, \* the persisted resources.Machine of every id (NoMachine: none)
  bmc,      \* the IPMI chassis-control commands issued, in order
  rip,      \* RoutableIPs harness: [addrs, out]
  sl        \* patchBinaries' bootScript slice: backing array and length

validateVars == <<m, vret>>
offerVars == <<oin, oret>>
lifecycleVars == <<cfg, ctxDone, sock, serve, closer, run>>
proxyVars == <<lifecycleVars, handlers, sent>>
patchVars == <<psrc, pdst, pscript, pret>>
providerVars == <<prov, patch, peg, srv, tun, tftp>>
bootVars == <<boot>>
serviceVars == <<svc, machines, bmc>>
moreVars == <<bootVars, serviceVars, rip, sl>>
vars == <<validateVars, offerVars, proxyVars, patchVars, providerVars, moreVars>>

\* m.ClientArch(): the parsed architecture list of option 93, nil when the
\* option is missing
ClientArch(pkt) == IF pkt.opt93.set THEN pkt.opt93.val ELSE <<>>

\* m.UserClass(): the parsed user-class list of option 77, nil when missing
UserClass(pkt) == IF pkt.opt77.set THEN pkt.opt77.val ELSE <<>>

\* m.GetOneOption(code)
GetOneOption(pkt, code) == pkt[code].val

\* mutant of ArchSwitch: a code with no case resets the result (a default
\* branch that rejects)
ArchSwitchResetOnUnknown(arch, fwtype) ==
  CASE arch = "INTEL_X86PC" -> FirmwareX86PC
    [] arch \in {"EFI_IA32", "EFI_X86_64", "EFI_BC"} -> FirmwareX86EFI
    [] arch = "EFI_ARM64" -> FirmwareARMEFI
    [] arch \in {"EFI_X86_HTTP", "EFI_X86_64_HTTP"} -> FirmwareX86HTTP
    [] arch = "EFI_ARM64_HTTP" -> FirmwareARMHTTP
    [] OTHER -> FirmwareUnsupported

\* the body of the switch inside the for loop: a matching case overwrites
\* fwtype, a code with no case leaves it alone
ArchSwitch(arch, fwtype) ==
  CASE arch = "INTEL_X86PC" -> FirmwareX86PC
    [] arch \in {"EFI_IA32", "EFI_X86_64", "EFI_BC"} -> FirmwareX86EFI
    [] arch = "EFI_ARM64" -> FirmwareARMEFI
    [] arch \in {"EFI_X86_HTTP", "EFI_X86_64_HTTP"} -> FirmwareX86HTTP
    [] arch = "EFI_ARM64_HTTP" -> FirmwareARMHTTP
    [] OTHER -> fwtype

\* mutant of ArchLoop: the first matching code wins (the loop stops
\* overwriting once a code matched)
RECURSIVE ArchLoopFirstWins(_, _, _)
ArchLoopFirstWins(arches, i, fwtype) ==
  IF i > Len(arches) THEN fwtype
  ELSE ArchLoopFirstWins(arches, i + 1,
         IF fwtype = FirmwareUnsupported THEN ArchSwitch(arches[i], fwtype)
         ELSE fwtype)

\* for _, arch := range arches { switch arch {...} }, from index i on
RECURSIVE ArchLoop(_, _, _)
ArchLoop(arches, i, fwtype) ==
  IF i > Len(arches) THEN fwtype
  ELSE ArchLoop(arches, i + 1, ArchSwitch(arches[i], fwtype))

\* mutant of UserClassOverride: any entry of the list equal to "iPXE"
\* reclassifies
UserClassOverrideAnyEntry(pkt, fwtype) ==
  LET userClasses == UserClass(pkt) IN
  IF (\E i \in 1..Len(userClasses) : userClasses[i] = "iPXE")
       /\ fwtype = FirmwareX86PC
    THEN FirmwareX86Ipxe
    ELSE fwtype

\* the user-class refinement of the provisional firmware type
UserClassOverride(pkt, fwtype) ==
  LET userClasses == UserClass(pkt) IN
  IF Len(userClasses) > 0
    THEN IF userClasses[1] = "iPXE" /\ fwtype = FirmwareX86PC
           THEN FirmwareX86Ipxe
           ELSE fwtype
    ELSE fwtype

\* mutant of GuidCheck: the leading byte of a 17-byte GUID is not looked at
GuidCheckAnyLead(guid) ==
  CASE Len(guid) = 0 -> ErrNil
    [] Len(guid) = 17 -> ErrNil
    [] OTHER -> ErrGuidWrongSize

\* switch len(guid) {...}: the error of the GUID check, ErrNil when it passes
GuidCheck(guid) ==
  CASE Len(guid) = 0 -> ErrNil
    [] Len(guid) = 17 -> IF guid[1] # 0 THEN ErrGuidLeadingByte ELSE ErrNil
    [] OTHER -> ErrGuidWrongSize

\* a variant whose GUID errors return the named result fwtype as it stands
ValidateDHCPKeepFirmware(pkt) ==
  LET arches == ClientArch(pkt)
      fw0 == ArchLoop(arches, 1, FirmwareUnsupported)
  IN IF fw0 = FirmwareUnsupported
       THEN [fwtype |-> 0, err |-> ErrUnsupportedArch]
       ELSE LET fw1 == UserClassOverride(pkt, fw0)
                guid == GetOneOption(pkt, "opt97")
                gerr == GuidCheck(guid)
            IN [fwtype |-> fw1, err |-> gerr]

\* validateDHCP(m) (fwtype Firmware, err error)
ValidateDHCP(pkt) ==
  LET arches == ClientArch(pkt)
      fw0 == ArchLoop(arches, 1, FirmwareUnsupported)
  IN IF fw0 = FirmwareUnsupported
       THEN [fwtype |-> 0, err |-> ErrUnsupportedArch]
       ELSE LET fw1 == UserClassOverride(pkt, fw0)
                guid == GetOneOption(pkt, "opt97")
                gerr == GuidCheck(guid)
            IN IF gerr # ErrNil
                 THEN [fwtype |-> 0, err |-> gerr]
                 ELSE [fwtype |-> fw1, err |-> ErrNil]

(***************************************************************************)
(* Inputs of the validateDHCP harness.                                     *)
(***************************************************************************)
ArchLists(n) == UNION {[1..k -> ArchCodes] : k \in 0..n}
UserClassLists ==
  {<<>>, <<"iPXE">>, <<"gPXE">>, <<"iPXE", "gPXE">>, <<"gPXE", "iPXE">>}
\* a GUID of n bytes whose first byte is lead
MkGuid(n, lead) == [i \in 1..n |-> IF i = 1 THEN lead ELSE 7]

\* an option whose value is a string and that is not in the packet
NoneStr == [set |-> FALSE, val |-> ""]

\* *dhcpv4.DHCPv4 as the handlers read it: the message type, and the options
\* 93 (client architecture), 77 (user class), 97 (client machine
\* identifier), 60 (vendor class identifier), 61 (client identifier)
Packet(mt, o93, o77, o97, o60) ==
  [msgType |-> mt, opt93 |-> o93, opt77 |-> o77, opt97 |-> o97, opt60 |-> o60,
   opt61 |-> None]

\* ---- net.IP values: the address, with the text IP.String() gives it ------
NilIP == [valid |-> FALSE, v4 |-> FALSE, text |-> "<nil>"]
IPv4zero == [valid |-> TRUE, v4 |-> TRUE, text |-> "0.0.0.0"]

\* a reply under construction (dhcpv4.New): no option set, siaddr 0.0.0.0
EmptyReply ==
  [opcode |-> "BootRequest", siaddr |-> IPv4zero,
   opt54 |-> NoneStr, opt60 |-> NoneStr, opt61 |-> None,
   opt66 |-> NoneStr, opt67 |-> NoneStr, opt97 |-> None]
NilResp == [EmptyReply EXCEPT !.opcode = "nil"]

NotCalled == [fwtype |-> -1, err |-> "not called"]
NoPacket == Packet("none", None, None, None, NoneStr)
NoOfferInput == [req |-> NoPacket, apiHost |-> "", apiPort |-> 0, fwtype |-> 0,
                 newReplyErr |-> ErrNil]
OfferNotCalled == [called |-> FALSE, resp |-> NilResp, err |-> "not called"]
OfferIdle == oin = NoOfferInput /\ oret = OfferNotCalled
ValidateIdle == m = NoPacket /\ vret = NotCalled
HandlerIds == 1..MaxPackets
FreeHandler ==
  [pc |-> "free", pkt |-> NoPacket, peer |-> "", fwtype |-> 0,
   resp |-> NilResp, err |-> ErrNil]
NoFile == [exists |-> FALSE, data |-> <<>>]
File(bytes) == [exists |-> TRUE, data |-> bytes]
Goroutine(pc) == [pc |-> pc, err |-> ErrNil]
NoProviderRun == Goroutine("idle")
NoZbin == [started |-> FALSE, exit |-> 0, stderr |-> ""]
\* the files patchBinaries writes; all but the patched raw legacy image are
\* in the TFTP root
OutFiles ==
  {"ipxe.efi", "ipxe-arm64.efi", "snp.efi", "snp-arm64.efi",
   "undionly.kpxe.bin.patched", "undionly.kpxe", "undionly.kpxe.0"}
\* the content of a file: "" when it does not exist, else what was written
NoFiles == [f \in OutFiles |-> ""]
NoPatchBinaries ==
  [step |-> 0, failed |-> FALSE, files |-> NoFiles, err |-> ErrNil, zbin |-> NoZbin]
NoErrgroup == [parent |-> FALSE, ctx |-> FALSE, done |-> {}, err |-> ErrNil]
NoServerRun ==
  [pc |-> "idle", ctx |-> FALSE, listen |-> "idle", stopper |-> "idle",
   shut |-> FALSE, err |-> ErrNil]
NoTunnel == Goroutine("idle")
NoTftpRun ==
  [pc |-> "idle", ctx |-> FALSE, listen |-> "idle", stopper |-> "idle",
   shut |-> FALSE, err |-> ErrNil, sessions |-> <<>>]
ProviderIdle ==
  /\ prov = NoProviderRun
  /\ patch = NoPatchBinaries
  /\ peg = NoErrgroup
  /\ srv = NoServerRun
  /\ tun = NoTunnel
  /\ tftp = NoTftpRun
NoPatchCall == [n |-> 0, err |-> ErrNil, ok |-> 0, first |-> NoFile]
PatchIdle ==
  /\ psrc = NoFile
  /\ pdst = NoFile
  /\ pscript = <<>>
  /\ pret = NoPatchCall
ProxyIdle ==
  /\ cfg = [apiHost |-> "", apiPort |-> 0]
  /\ ctxDone = FALSE
  /\ sock = "none"
  /\ serve = [pc |-> "idle", err |-> ErrNil]
  /\ closer = [pc |-> "idle", err |-> ErrNil]
  /\ run = [pc |-> "idle", err |-> ErrNil]
  /\ handlers = [i \in HandlerIds |-> FreeHandler]
  /\ sent = [i \in HandlerIds |-> <<>>]

\* the ids of the machines that requests name
MachineIds == {"m1", "m2"}
\* a port is held as 16-bit limbs, least significant first: two for a uint32,
\* four for an int
NoMachine == [exists |-> FALSE, ip |-> "", port |-> <<0, 0>>, password |-> ""]
NoBoot == [pc |-> "idle", n |-> 0, x |-> 0, idx |-> 0, sweeps |-> 0, tried |-> <<>>]
NoCall ==
  [op |-> "none", pc |-> "idle", id |-> "", password |-> "", ip |-> "",
   port |-> <<0, 0, 0, 0>>,
   machine |-> NoMachine, err |-> ErrNil, calls |-> 0, steps |-> <<>>, ok |-> 0,
   via |-> "", others |-> 0]
NoRoutableIPs ==
  [addrs |-> <<>>, out |-> <<>>, called |-> FALSE, err |-> ErrNil, apiHost |-> ""]
NoSlice ==
  [arr |-> <<>>, len |-> 0, script |-> <<>>, patched |-> <<>>, n |-> 0, err |-> ErrNil]
MoreIdle ==
  /\ boot = NoBoot
  /\ svc = NoCall
  /\ machines = [id \in MachineIds |-> NoMachine]
  /\ bmc = <<>>
  /\ rip = NoRoutableIPs
  /\ sl = NoSlice

\* every architecture list, a few user-class lists, a few GUIDs
InitArch ==
  /\ \E a \in ArchLists(MaxArchLen), o93set \in BOOLEAN, uc \in UserClassLists,
        g \in {None, Some(MkGuid(17, 0)), Some(MkGuid(17, 1)), Some(MkGuid(16, 0))} :
       m = Packet("Discover",
                  IF o93set THEN Some(a) ELSE None,
                  IF uc = <<>> THEN None ELSE Some(uc), g, NoneStr)
  /\ vret = NotCalled
  /\ OfferIdle
  /\ ProxyIdle
  /\ PatchIdle
  /\ ProviderIdle
  /\ MoreIdle

\* every GUID length and leading byte, short architecture lists
InitGuid ==
  /\ \E a \in ArchLists(1), uc \in UserClassLists,
        n \in 0..MaxGuidLen, lead \in {0, 1, 255}, gset \in BOOLEAN :
       m = Packet("Discover", Some(a),
                  IF uc = <<>> THEN None ELSE Some(uc),
                  IF gset THEN Some(MkGuid(n, lead)) ELSE None, NoneStr)
  /\ vret = NotCalled
  /\ OfferIdle
  /\ ProxyIdle
  /\ PatchIdle
  /\ ProviderIdle
  /\ MoreIdle

\* fwtype, err := validateDHCP(m)
CallValidate ==
  /\ vret = NotCalled
  /\ vret' = ValidateDHCP(m)
  /\ UNCHANGED <<m, offerVars, proxyVars, patchVars, providerVars, moreVars>>

NextValidate == CallValidate

SpecArch == InitArch /\ [][NextValidate]_vars
SpecGuid == InitGuid /\ [][NextValidate]_vars

(***************************************************************************)
(* The classification rule as the specification states it: a mapping table *)
(* applied to the last recognized code, then the iPXE override.            *)
(***************************************************************************)
MappingTable ==
  [a \in RecognizedArchs |->
     CASE a = "INTEL_X86PC" -> FirmwareX86PC
       [] a = "EFI_IA32" -> FirmwareX86EFI
       [] a = "EFI_X86_64" -> FirmwareX86EFI
       [] a = "EFI_BC" -> FirmwareX86EFI
       [] a = "EFI_ARM64" -> FirmwareARMEFI
       [] a = "EFI_X86_HTTP" -> FirmwareX86HTTP
       [] a = "EFI_X86_64_HTTP" -> FirmwareX86HTTP
       [] a = "EFI_ARM64_HTTP" -> FirmwareARMHTTP]

HasRecognized(arches) == \E i \in 1..Len(arches) : arches[i] \in RecognizedArchs

LastRecognized(arches) ==
  arches[CHOOSE i \in 1..Len(arches) :
           /\ arches[i] \in RecognizedArchs
           /\ \A j \in (i + 1)..Len(arches) : arches[j] \notin RecognizedArchs]

\* the provisional variant: Unsupported when nothing is recognized
Provisional(arches) ==
  IF HasRecognized(arches) THEN MappingTable[LastRecognized(arches)]
  ELSE FirmwareUnsupported

FirstUserClassIsIPXE(pkt) ==
  pkt.opt77.set /\ Len(pkt.opt77.val) > 0 /\ pkt.opt77.val[1] = "iPXE"

GuidValid(guid) == Len(guid) = 0 \/ (Len(guid) = 17 /\ guid[1] = 0)

ExpectedFirmware(pkt) ==
  LET provisional == Provisional(ClientArch(pkt)) IN
  IF provisional = FirmwareX86PC /\ FirstUserClassIsIPXE(pkt) THEN FirmwareX86Ipxe
  ELSE provisional

OnlyRecognized(arches) == SelectSeq(arches, LAMBDA a : a \in RecognizedArchs)

Called == vret # NotCalled

\* C1: for a packet with at least one recognized architecture code and a
\* valid GUID, validateDHCP succeeds with the firmware the mapping table
\* gives the LAST recognized code, the iPXE override applied afterwards;
\* dropping the unrecognized codes from the list does not change the result.
C1_LastRecognizedWins ==
  (Called /\ HasRecognized(ClientArch(m)) /\ GuidValid(m.opt97.val)) =>
     /\ vret = [fwtype |-> ExpectedFirmware(m), err |-> ErrNil]
     /\ vret = ValidateDHCP([m EXCEPT !.opt93 = Some(OnlyRecognized(ClientArch(m)))])

\* C1 witness: two different recognized codes with an unrecognized one
\* between them; the later one decided
C1_Witness ==
  /\ Called
  /\ m.opt93 = Some(<<"INTEL_X86PC", "EFI_ITANIUM", "EFI_ARM64">>)
  /\ m.opt97 = Some(MkGuid(17, 0))
  /\ vret = [fwtype |-> FirmwareARMEFI, err |-> ErrNil]

MalformedGuidErrors == {ErrGuidLeadingByte, ErrGuidWrongSize}

\* C2: for a packet with at least one recognized architecture code,
\* validateDHCP succeeds iff option 97 has length 0, or length 17 with a zero
\* first byte; every other GUID fails with a malformed-GUID error.
C2_GuidValidity ==
  (Called /\ HasRecognized(ClientArch(m))) =>
     /\ (vret.err = ErrNil) <=> GuidValid(m.opt97.val)
     /\ ~GuidValid(m.opt97.val) =>
           (vret.err \in MalformedGuidErrors /\ vret.fwtype = FirmwareUnsupported)
     /\ (Len(m.opt97.val) = 17 /\ m.opt97.val[1] # 0) => vret.err = ErrGuidLeadingByte
     /\ Len(m.opt97.val) \notin {0, 17} => vret.err = ErrGuidWrongSize

\* C2 witness: a 17-byte GUID with a nonzero first byte was rejected
C2_Witness ==
  /\ Called
  /\ m.opt93 = Some(<<"EFI_X86_64">>)
  /\ m.opt97 = Some(MkGuid(17, 255))
  /\ vret = [fwtype |-> 0, err |-> ErrGuidLeadingByte]

\* C3: validateDHCP fails with the unsupported-architecture error exactly
\* when no code of the list is recognized (the empty list included); an
\* unrecognized code beside a recognized one never causes that error.
C3_UnsupportedIffNoneRecognized ==
  Called =>
     /\ (vret.err = ErrUnsupportedArch) <=> ~HasRecognized(ClientArch(m))
     /\ vret.err = ErrUnsupportedArch => vret.fwtype = FirmwareUnsupported

\* C3 witness: an unrecognized code after a recognized one was skipped and
\* the packet classified
C3_Witness ==
  /\ Called
  /\ m.opt93 = Some(<<"EFI_X86_64", "EFI_ITANIUM">>)
  /\ m.opt97 = None
  /\ vret = [fwtype |-> FirmwareX86EFI, err |-> ErrNil]

\* C4 as stated: validateDHCP returns X86Ipxe exactly when the provisional
\* variant is X86PC and the first user class is "iPXE".
C4_Original ==
  Called =>
     ((vret.fwtype = FirmwareX86Ipxe) <=>
        (Provisional(ClientArch(m)) = FirmwareX86PC /\ FirstUserClassIsIPXE(m)))

\* C4 amended: validateDHCP returns X86Ipxe exactly when the provisional
\* variant is X86PC, the first user class is "iPXE" and the GUID option is
\* valid; whenever it succeeds with another provisional variant, that
\* variant is returned unchanged whatever the user classes are, and "iPXE"
\* at a later position only never reclassifies.
C4_IpxeOverride ==
  Called =>
     /\ (vret.fwtype = FirmwareX86Ipxe) <=>
          (/\ Provisional(ClientArch(m)) = FirmwareX86PC
           /\ FirstUserClassIsIPXE(m)
           /\ GuidValid(m.opt97.val))
     /\ (vret.err = ErrNil /\ Provisional(ClientArch(m)) # FirmwareX86PC) =>
          vret.fwtype = Provisional(ClientArch(m))
     /\ (vret.err = ErrNil /\ ~FirstUserClassIsIPXE(m)) =>
          vret.fwtype = Provisional(ClientArch(m))

\* C4 witness: a BIOS client announcing the user class "iPXE" first was
\* reclassified
C4_Witness ==
  /\ Called
  /\ m.opt93 = Some(<<"INTEL_X86PC">>)
  /\ m.opt77 = Some(<<"iPXE", "gPXE">>)
  /\ m.opt97 = Some(MkGuid(17, 0))
  /\ vret = [fwtype |-> FirmwareX86Ipxe, err |-> ErrNil]

(***************************************************************************)
(* offerDHCP                                                               *)
(***************************************************************************)
ErrUnsupportedFirmware == "unsupported firmware type"
ErrNewReply == "could not get random number"

\* net.ParseIP on the advertise addresses the harness configures: an IPv4
\* literal, an IPv4-mapped IPv6 literal (the same address), an IPv6 literal
\* written in upper case; nil for anything that is no IP literal
ParseIP(s) ==
  CASE s = "10.0.0.1" -> [valid |-> TRUE, v4 |-> TRUE, text |-> "10.0.0.1"]
    [] s = "::ffff:10.0.0.1" -> [valid |-> TRUE, v4 |-> TRUE, text |-> "10.0.0.1"]
    [] s = "192.168.1.10" -> [valid |-> TRUE, v4 |-> TRUE, text |-> "192.168.1.10"]
    [] s = "2001:DB8::1" -> [valid |-> TRUE, v4 |-> FALSE, text |-> "2001:db8::1"]
    [] OTHER -> NilIP

\* IP.String(): the canonical text, "<nil>" for a nil IP
IPString(ip) == ip.text

\* strconv.Itoa
Digits == <<"0", "1", "2", "3", "4", "5", "6", "7", "8", "9">>
RECURSIVE Itoa(_)
Itoa(n) ==
  IF n < 0 THEN "-" \o Itoa(-n)
  ELSE IF n < 10 THEN Digits[n + 1]
  ELSE Itoa(n \div 10) \o Digits[(n % 10) + 1]

\* net.JoinHostPort: a host that contains a colon is put in brackets
ContainsColon(host) == host \in {"2001:db8::1", "::ffff:10.0.0.1", "2001:DB8::1"}
JoinHostPort(host, port) ==
  IF ContainsColon(host) THEN "[" \o host \o "]:" \o port
  ELSE host \o ":" \o port

\* resp.UpdateOption(opt)
UpdateOption(resp, code, v) == [resp EXCEPT ![code] = Some(v)]

\* dhcpv4.WithOptionCopied(req, code): copies the option when the request's
\* value is not nil
WithOptionCopied(req, code, d) ==
  IF req[code].set THEN UpdateOption(d, code, req[code].val) ELSE d

\* mutant of WithServerIP: the address goes into the server-identifier
\* option (54) instead of the siaddr header field
WithServerIdentifier(ip, d) == UpdateOption(d, "opt54", IPString(ip))

\* dhcpv4.WithServerIP(serverIP): the siaddr header field
WithServerIP(ip, d) == [d EXCEPT !.siaddr = ip]

\* dhcpv4.NewReplyFromRequest(req, modifiers...): a boot reply that takes the
\* client identifier (61) from the request, then the three modifiers of
\* offerDHCP in order
NewReplyFromRequest(req, serverIP) ==
  LET d0 == [EmptyReply EXCEPT !.opcode = "BootReply"]
      d1 == WithOptionCopied(req, "opt61", d0)
      d2 == WithServerIP(serverIP, d1)
      d3 == WithOptionCopied(req, "opt97", d2)
  IN WithOptionCopied(req, "opt60", d3)

\* mutant of ClassIdentifierDefault: the default overwrites a copied
\* vendor class
ClassIdentifierAlwaysPXEClient(resp) == UpdateOption(resp, "opt60", "PXEClient")

\* if resp.GetOneOption(OptionClassIdentifier) == nil { UpdateOption(...) }
ClassIdentifierDefault(resp) ==
  IF ~resp.opt60.set THEN UpdateOption(resp, "opt60", "PXEClient") ELSE resp

\* mutant of FirmwareSwitch: the two EFI loaders are swapped
FirmwareSwitchSwappedEFI(resp, fwtype, serverIP, ipPort) ==
  CASE fwtype = FirmwareX86PC ->
         [resp |-> UpdateOption(UpdateOption(resp, "opt66", IPString(serverIP)),
                                "opt67", "undionly.kpxe"),
          err |-> ErrNil]
    [] fwtype = FirmwareX86Ipxe ->
         [resp |-> UpdateOption(resp, "opt67",
                                "tftp://" \o IPString(serverIP) \o "/undionly.kpxe"),
          err |-> ErrNil]
    [] fwtype = FirmwareX86EFI ->
         [resp |-> UpdateOption(UpdateOption(resp, "opt66", IPString(serverIP)),
                                "opt67", "snp-arm64.efi"),
          err |-> ErrNil]
    [] fwtype = FirmwareARMEFI ->
         [resp |-> UpdateOption(UpdateOption(resp, "opt66", IPString(serverIP)),
                                "opt67", "snp.efi"),
          err |-> ErrNil]
    [] fwtype = FirmwareX86HTTP ->
         [resp |-> UpdateOption(resp, "opt67",
                                "http://" \o ipPort \o "/tftp/snp.efi"),
          err |-> ErrNil]
    [] fwtype = FirmwareARMHTTP ->
         [resp |-> UpdateOption(resp, "opt67",
                                "http://" \o ipPort \o "/tftp/snp-arm64.efi"),
          err |-> ErrNil]
    [] OTHER -> [resp |-> NilResp, err |-> ErrUnsupportedFirmware]

\* switch fwtype {...}: the options each firmware type gets; Unsupported and
\* every value outside the enumeration return an error and no reply
FirmwareSwitch(resp, fwtype, serverIP, ipPort) ==
  CASE fwtype = FirmwareX86PC ->
         [resp |-> UpdateOption(UpdateOption(resp, "opt66", IPString(serverIP)),
                                "opt67", "undionly.kpxe"),
          err |-> ErrNil]
    [] fwtype = FirmwareX86Ipxe ->
         [resp |-> UpdateOption(resp, "opt67",
                                "tftp://" \o IPString(serverIP) \o "/undionly.kpxe"),
          err |-> ErrNil]
    [] fwtype = FirmwareX86EFI ->
         [resp |-> UpdateOption(UpdateOption(resp, "opt66", IPString(serverIP)),
                                "opt67", "snp.efi"),
          err |-> ErrNil]
    [] fwtype = FirmwareARMEFI ->
         [resp |-> UpdateOption(UpdateOption(resp, "opt66", IPString(serverIP)),
                                "opt67", "snp-arm64.efi"),
          err |-> ErrNil]
    [] fwtype = FirmwareX86HTTP ->
         [resp |-> UpdateOption(resp, "opt67",
                                "http://" \o ipPort \o "/tftp/snp.efi"),
          err |-> ErrNil]
    [] fwtype = FirmwareARMHTTP ->
         [resp |-> UpdateOption(resp, "opt67",
                                "http://" \o ipPort \o "/tftp/snp-arm64.efi"),
          err |-> ErrNil]
    [] OTHER -> [resp |-> NilResp, err |-> ErrUnsupportedFirmware]

\* offerDHCP(req, apiHost, apiPort, fwtype) (*dhcpv4.DHCPv4, error);
\* newReplyErr is the error dhcpv4.NewReplyFromRequest returned (it fails when
\* the library cannot draw a transaction id)
OfferDHCP(req, apiHost, apiPort, fwtype, newReplyErr) ==
  LET serverIP == ParseIP(apiHost)
      ipPort == JoinHostPort(IPString(serverIP), Itoa(apiPort))
  IN IF newReplyErr # ErrNil
       THEN [resp |-> NilResp, err |-> newReplyErr]
       ELSE FirmwareSwitch(ClassIdentifierDefault(NewReplyFromRequest(req, serverIP)),
                           fwtype, serverIP, ipPort)

(***************************************************************************)
(* Inputs of the offerDHCP harness.                                        *)
(***************************************************************************)
\* --api-host: "The IP address to bind on and advertise"
ApiHosts == {"10.0.0.1", "::ffff:10.0.0.1", "192.168.1.10", "2001:DB8::1"}
\* --api-port (default 50042)
ApiPorts == {80, 50042}
\* the Firmware enumeration, and a value on each side of it
FirmwareValues == (FirmwareUnsupported - 1)..(FirmwareARMHTTP + 1)
VendorClasses == {NoneStr, Some("PXEClient"), Some("HTTPClient"), Some("")}
OfferGuids == {None, Some(<<>>), Some(MkGuid(17, 0)), Some(MkGuid(16, 3))}
ClientIds == {None, Some(<<1, 2>>)}

InitOffer ==
  /\ \E h \in ApiHosts, p \in ApiPorts, fw \in FirmwareValues,
        vc \in VendorClasses, g \in OfferGuids, cid \in ClientIds,
        e \in {ErrNil, ErrNewReply} :
       oin = [req |-> [Packet("Discover", Some(<<"EFI_X86_64">>), None, g, vc)
                         EXCEPT !.opt61 = cid],
              apiHost |-> h, apiPort |-> p, fwtype |-> fw, newReplyErr |-> e]
  /\ oret = OfferNotCalled
  /\ ValidateIdle
  /\ ProxyIdle
  /\ PatchIdle
  /\ ProviderIdle
  /\ MoreIdle

\* resp, err := offerDHCP(m, p.apiHost, p.apiPort, fwtype)
CallOffer ==
  /\ ~oret.called
  /\ oret' = [called |-> TRUE] @@
             OfferDHCP(oin.req, oin.apiHost, oin.apiPort, oin.fwtype, oin.newReplyErr)
  /\ UNCHANGED <<oin, validateVars, proxyVars, patchVars, providerVars, moreVars>>

NextOffer == CallOffer

SpecOffer == InitOffer /\ [][NextOffer]_vars

(***************************************************************************)
(* Proxy.Run and handlePacket.  server4.Serve() reads the socket in a loop *)
(* and starts one goroutine per packet it could parse; each goroutine runs *)
(* the closure handlePacket returned, step by step.                        *)
(***************************************************************************)
ErrNotDiscover == "packet is not DHCPDISCOVER"
ErrNoOption93 == "not a PXE boot request (missing option 93)"
ErrCreateServer == "failed to create DHCP server"
ErrRunServer == "failed to run DHCP server"
ErrClosed == "use of closed network connection"
ErrWrite == "write failed"

\* mutant of IsBootDHCP: the message type is not looked at
IsBootDHCPAnyType(pkt) ==
  IF ~pkt.opt93.set THEN ErrNoOption93 ELSE ErrNil

\* isBootDHCP(pkt) error
IsBootDHCP(pkt) ==
  IF pkt.msgType # "Discover" THEN ErrNotDiscover
  ELSE IF ~pkt.opt93.set THEN ErrNoOption93
  ELSE ErrNil

\* the packets the server receives: one per outcome of handlePacket
ProxyPackets ==
  {Packet("Request", Some(<<"EFI_X86_64">>), None, None, NoneStr),
   Packet("Discover", None, None, None, NoneStr),
   Packet("Discover", Some(<<"EFI_ITANIUM">>), None, None, NoneStr),
   Packet("Discover", Some(<<"EFI_X86_64">>), None, Some(MkGuid(16, 0)), NoneStr),
   Packet("Discover", Some(<<"EFI_X86_64">>), None, Some(MkGuid(17, 0)),
          Some("PXEClient")),
   Packet("Discover", Some(<<"INTEL_X86PC">>), Some(<<"iPXE">>), None, NoneStr)}
\* the peer address Serve() hands to the handler
Peers == {"10.0.0.50:68", "255.255.255.255:68"}
ProxyConfigs ==
  {[apiHost |-> "10.0.0.1", apiPort |-> 50042],
   [apiHost |-> "2001:DB8::1", apiPort |-> 80]}

InitProxy ==
  /\ cfg \in ProxyConfigs
  /\ ctxDone = FALSE
  /\ sock = "none"
  /\ serve = [pc |-> "idle", err |-> ErrNil]
  /\ closer = [pc |-> "idle", err |-> ErrNil]
  /\ run = [pc |-> "start", err |-> ErrNil]
  /\ handlers = [i \in HandlerIds |-> FreeHandler]
  /\ sent = [i \in HandlerIds |-> <<>>]
  /\ ValidateIdle
  /\ OfferIdle
  /\ PatchIdle
  /\ ProviderIdle
  /\ MoreIdle

\* server4.NewServer fails (the socket cannot be bound): Run returns the
\* wrapped error
NewServerFail ==
  /\ run.pc = "start"
  /\ run' = [pc |-> "returned", err |-> ErrCreateServer]
  /\ UNCHANGED <<cfg, ctxDone, sock, serve, closer, handlers, sent,
                 validateVars, offerVars, patchVars, providerVars, moreVars>>

\* server4.NewServer succeeds; both goroutines of the errgroup start
NewServerOK ==
  /\ run.pc = "start"
  /\ run' = [run EXCEPT !.pc = "waiting"]
  /\ sock' = "open"
  /\ serve' = [serve EXCEPT !.pc = "reading"]
  /\ closer' = [closer EXCEPT !.pc = "waiting"]
  /\ UNCHANGED <<cfg, ctxDone, handlers, sent, validateVars, offerVars, patchVars, providerVars, moreVars>>

\* the context handed to Run is cancelled by the caller
CtxCancel ==
  /\ run.pc = "waiting"
  /\ ~ctxDone
  /\ ctxDone' = TRUE
  /\ UNCHANGED <<cfg, sock, serve, closer, run, handlers, sent,
                 validateVars, offerVars, patchVars, providerVars, moreVars>>

\* Serve(): ReadFrom returned a packet that parsed; "go s.Handler(conn, peer, m)"
Dispatch(i) ==
  /\ serve.pc = "reading"
  /\ sock = "open"
  /\ handlers[i].pc = "free"
  /\ \A j \in HandlerIds : j < i => handlers[j].pc # "free"
  /\ \E pkt \in ProxyPackets, peer \in Peers :
       handlers' = [handlers EXCEPT
                      ![i] = [FreeHandler EXCEPT
                                !.pc = "isBootDHCP", !.pkt = pkt, !.peer = peer]]
  /\ UNCHANGED <<lifecycleVars, sent, validateVars, offerVars, patchVars, providerVars, moreVars>>

\* Serve(): ReadFrom fails on the open socket; Serve closes the server
\* (defer s.Close()) and returns the error, the goroutine wraps it, and the
\* errgroup cancels its context on the first error
ServeReadError ==
  /\ serve.pc = "reading"
  /\ sock = "open"
  /\ serve' = [pc |-> "returned", err |-> ErrRunServer]
  /\ sock' = "closed"
  /\ ctxDone' = TRUE
  /\ UNCHANGED <<cfg, closer, run, handlers, sent, validateVars, offerVars, patchVars, providerVars, moreVars>>

\* mutant of ServeReadClosed: the closed-socket error is wrapped and returned
\* like any other (no errors.Is(err, net.ErrClosed) test)
ServeReadClosedReported ==
  /\ serve.pc = "reading"
  /\ sock = "closed"
  /\ serve' = [pc |-> "returned", err |-> ErrRunServer]
  /\ UNCHANGED <<cfg, ctxDone, sock, closer, run, handlers, sent,
                 validateVars, offerVars, patchVars, providerVars, moreVars>>

\* Serve(): ReadFrom fails with net.ErrClosed on the closed socket; the
\* goroutine returns nil
ServeReadClosed ==
  /\ serve.pc = "reading"
  /\ sock = "closed"
  /\ serve' = [pc |-> "returned", err |-> ErrNil]
  /\ UNCHANGED <<cfg, ctxDone, sock, closer, run, handlers, sent,
                 validateVars, offerVars, patchVars, providerVars, moreVars>>

\* <-ctx.Done(); return server.Close(): closing a socket that Serve already
\* closed returns an error, and a first error cancels the errgroup's context
CloserClose ==
  /\ closer.pc = "waiting"
  /\ ctxDone
  /\ closer' = [pc |-> "returned",
                err |-> IF sock = "closed" THEN ErrClosed ELSE ErrNil]
  /\ sock' = "closed"
  /\ UNCHANGED <<cfg, ctxDone, serve, run, handlers, sent,
                 validateVars, offerVars, patchVars, providerVars, moreVars>>

\* eg.Wait(): both goroutines returned; the first non-nil error is Run's
\* (Serve's, when it failed: the closer fails only after Serve did)
RunReturn ==
  /\ run.pc = "waiting"
  /\ serve.pc = "returned"
  /\ closer.pc = "returned"
  /\ run' = [pc |-> "returned",
             err |-> IF serve.err # ErrNil THEN serve.err ELSE closer.err]
  /\ ctxDone' = TRUE
  /\ UNCHANGED <<cfg, sock, serve, closer, handlers, sent,
                 validateVars, offerVars, patchVars, providerVars, moreVars>>

Finish(h, e) == [h EXCEPT !.pc = "done", !.err = e]

\* if err := isBootDHCP(m); err != nil { log; return }
StepIsBootDHCP(i) ==
  /\ handlers[i].pc = "isBootDHCP"
  /\ LET h == handlers[i]
         err == IsBootDHCP(h.pkt)
     IN handlers' = [handlers EXCEPT
                       ![i] = IF err # ErrNil THEN Finish(h, err)
                              ELSE [h EXCEPT !.pc = "validateDHCP"]]
  /\ UNCHANGED <<lifecycleVars, sent, validateVars, offerVars, patchVars, providerVars, moreVars>>

\* mutant of StepValidateDHCP: fwtype is one variable shared by all handler
\* goroutines (declared outside the closure)
StepValidateDHCPSharedFwtype(i) ==
  /\ handlers[i].pc = "validateDHCP"
  /\ LET h == handlers[i]
         v == ValidateDHCP(h.pkt)
     IN handlers' =
          [j \in HandlerIds |->
             IF j = i
               THEN IF v.err # ErrNil THEN Finish([h EXCEPT !.fwtype = 0], v.err)
                    ELSE [h EXCEPT !.pc = "offerDHCP", !.fwtype = v.fwtype]
               ELSE [handlers[j] EXCEPT !.fwtype = v.fwtype]]
  /\ UNCHANGED <<lifecycleVars, sent, validateVars, offerVars, patchVars, providerVars, moreVars>>

\* fwtype, err := validateDHCP(m); if err != nil { log; return }
StepValidateDHCP(i) ==
  /\ handlers[i].pc = "validateDHCP"
  /\ LET h == handlers[i]
         v == ValidateDHCP(h.pkt)
     IN handlers' = [handlers EXCEPT
                       ![i] = IF v.err # ErrNil THEN Finish(h, v.err)
                              ELSE [h EXCEPT !.pc = "offerDHCP",
                                             !.fwtype = v.fwtype]]
  /\ UNCHANGED <<lifecycleVars, sent, validateVars, offerVars, patchVars, providerVars, moreVars>>

\* resp, err := offerDHCP(m, p.apiHost, p.apiPort, fwtype);
\* if err != nil { log; return }
StepOfferDHCP(i) ==
  /\ handlers[i].pc = "offerDHCP"
  /\ \E newReplyErr \in {ErrNil, ErrNewReply} :
       LET h == handlers[i]
           r == OfferDHCP(h.pkt, cfg.apiHost, cfg.apiPort, h.fwtype, newReplyErr)
       IN handlers' = [handlers EXCEPT
                         ![i] = IF r.err # ErrNil THEN Finish(h, r.err)
                                ELSE [h EXCEPT !.pc = "WriteTo", !.resp = r.resp]]
  /\ UNCHANGED <<lifecycleVars, sent, validateVars, offerVars, patchVars, providerVars, moreVars>>

\* _, err = conn.WriteTo(resp.ToBytes(), peer); an error is logged.  The
\* write fails on a closed socket and may fail on an open one.  data is the
\* reply whose encoding was handed to the socket.
StepWriteTo(i) ==
  /\ handlers[i].pc = "WriteTo"
  /\ \E werr \in {ErrNil, ErrWrite, ErrClosed} :
       /\ werr = ErrClosed <=> sock = "closed"
       /\ LET h == handlers[i] IN
          /\ sent' = [sent EXCEPT
                        ![i] = Append(@, [to |-> h.peer, data |-> h.resp,
                                          err |-> werr])]
          /\ handlers' = [handlers EXCEPT ![i] = Finish(h, werr)]
  /\ UNCHANGED <<lifecycleVars, validateVars, offerVars, patchVars, providerVars, moreVars>>

NextProxy ==
  \/ NewServerFail
  \/ NewServerOK
  \/ CtxCancel
  \/ \E i \in HandlerIds : Dispatch(i)
  \/ ServeReadError
  \/ ServeReadClosed
  \/ CloserClose
  \/ RunReturn
  \/ \E i \in HandlerIds : StepIsBootDHCP(i)
  \/ \E i \in HandlerIds : StepValidateDHCP(i)
  \/ \E i \in HandlerIds : StepOfferDHCP(i)
  \/ \E i \in HandlerIds : StepWriteTo(i)

SpecProxy == InitProxy /\ [][NextProxy]_vars

\* Scheduling: the goroutines of Run take the steps they can take; a
\* ReadFrom on a closed socket returns, a handler runs to its end.
ProxyFairness ==
  /\ WF_vars(CloserClose)
  /\ WF_vars(ServeReadClosed)
  /\ WF_vars(RunReturn)
\* Run with at most MaxInFlight packets read for as long as it runs: the
\* handlers beyond MaxInFlight stay free
NextProxyRun ==
  \/ NewServerFail
  \/ NewServerOK
  \/ CtxCancel
  \/ \E i \in 1..MaxInFlight : Dispatch(i)
  \/ ServeReadError
  \/ ServeReadClosed
  \/ CloserClose
  \/ RunReturn
  \/ \E i \in 1..MaxInFlight : StepIsBootDHCP(i)
  \/ \E i \in 1..MaxInFlight : StepValidateDHCP(i)
  \/ \E i \in 1..MaxInFlight : StepOfferDHCP(i)
  \/ \E i \in 1..MaxInFlight : StepWriteTo(i)
SpecProxyFair == InitProxy /\ [][NextProxyRun]_vars /\ ProxyFairness

\* what handling pkt alone, start to end, hands to the socket (NilResp:
\* nothing), when the library constructs the reply
ExpectedReply(pkt) ==
  IF IsBootDHCP(pkt) # ErrNil THEN NilResp
  ELSE LET v == ValidateDHCP(pkt) IN
       IF v.err # ErrNil THEN NilResp
       ELSE OfferDHCP(pkt, cfg.apiHost, cfg.apiPort, v.fwtype, ErrNil).resp

WriteErrors == {ErrNil, ErrWrite, ErrClosed}

\* C8: a handler writes to the socket at most once, and only for a Discover
\* packet that has option 93, that validateDHCP accepted and for which
\* offerDHCP built a reply; the write carries that reply, is addressed to the
\* peer the packet came with, and a failed write ends the handler (no retry).
C8_AtMostOneWrite ==
  \A i \in HandlerIds :
    LET h == handlers[i] IN
    /\ Len(sent[i]) <= 1
    /\ Len(sent[i]) = 1 =>
         /\ h.pkt.msgType = "Discover"
         /\ h.pkt.opt93.set
         /\ ValidateDHCP(h.pkt).err = ErrNil
         /\ ExpectedReply(h.pkt) # NilResp
         /\ sent[i][1].data = ExpectedReply(h.pkt)
         /\ sent[i][1].to = h.peer
         /\ h.pc = "done"
         /\ h.err = sent[i][1].err
         /\ h.err \in WriteErrors
    /\ (h.pc = "done" /\ h.err \notin WriteErrors) => sent[i] = <<>>

\* C8 witness: a reply was written once to the broadcast peer of its
\* request, the write failed, and the handler ended
C8_Witness ==
  \E i \in HandlerIds :
    /\ handlers[i].pc = "done"
    /\ handlers[i].peer = "255.255.255.255:68"
    /\ Len(sent[i]) = 1
    /\ sent[i][1].to = "255.255.255.255:68"
    /\ sent[i][1].err = ErrWrite
    /\ sent[i][1].data.opt67 = Some("snp.efi")

\* the outcome of every finished handler is the outcome of handling its
\* packet alone, and two finished handlers with the same packet handed the
\* same reply to the socket (a failure of the library to construct the reply
\* set aside)
C9_OutcomeByPacket ==
  /\ \A i \in HandlerIds :
       LET h == handlers[i] IN
       (h.pc = "done" /\ h.err # ErrNewReply) =>
          IF ExpectedReply(h.pkt) = NilResp THEN sent[i] = <<>>
          ELSE /\ Len(sent[i]) = 1
               /\ sent[i][1].data = ExpectedReply(h.pkt)
               /\ sent[i][1].to = h.peer
  /\ \A i, j \in HandlerIds :
       (/\ handlers[i].pc = "done" /\ handlers[j].pc = "done"
        /\ handlers[i].pkt = handlers[j].pkt
        /\ handlers[i].err # ErrNewReply /\ handlers[j].err # ErrNewReply) =>
          /\ Len(sent[i]) = Len(sent[j])
          /\ \A k \in 1..Len(sent[i]) : sent[i][k].data = sent[j][k].data
  /\ run.err \in {ErrNil, ErrCreateServer, ErrRunServer, ErrClosed}

\* no step of a packet handler touches Proxy.Run: the socket, the context,
\* the Serve loop and Run's result change only by the server's own steps
C9_HandlersLeaveRunAlone ==
  (\E i \in HandlerIds : handlers'[i] # handlers[i]) =>
     UNCHANGED <<cfg, ctxDone, sock, serve, closer, run>>

\* C9: packet handling is stateless and never fatal: in every interleaving
\* of the handlers, whether a packet gets a reply and what the reply holds
\* depends only on the packet and the fixed (apiHost, apiPort), and no
\* handler step, whatever its packet, ends Proxy.Run or the Serve loop.
C9_StatelessNeverFatal ==
  []C9_OutcomeByPacket /\ [][C9_HandlersLeaveRunAlone]_vars

\* C9 witness: while Serve is still reading, one handler dropped a malformed
\* packet and another, handling a good packet, wrote its reply
C9_Witness ==
  /\ serve.pc = "reading"
  /\ run.pc = "waiting"
  /\ \E i, j \in HandlerIds :
       /\ handlers[i].pc = "done"
       /\ handlers[i].err = ErrGuidWrongSize
       /\ sent[i] = <<>>
       /\ handlers[j].pc = "done"
       /\ Len(sent[j]) = 1
       /\ sent[j][1].err = ErrNil
       /\ sent[j][1].data = ExpectedReply(handlers[j].pkt)

(***************************************************************************)
(* The reply table as the specification states it.                         *)
(***************************************************************************)
\* the configured advertise address, as text
AdvertiseAddress ==
  [h \in ApiHosts |->
     CASE h = "10.0.0.1" -> "10.0.0.1"
       [] h = "::ffff:10.0.0.1" -> "10.0.0.1"
       [] h = "192.168.1.10" -> "192.168.1.10"
       [] h = "2001:DB8::1" -> "2001:db8::1"]
PortText == [p \in ApiPorts |-> IF p = 80 THEN "80" ELSE "50042"]
\* <serverIP:port>
AdvertiseHostPort(h, p) ==
  IF h = "2001:DB8::1" THEN "[2001:db8::1]:" \o PortText[p]
  ELSE AdvertiseAddress[h] \o ":" \o PortText[p]

SupportedFirmware ==
  {FirmwareX86PC, FirmwareX86EFI, FirmwareARMEFI, FirmwareX86Ipxe,
   FirmwareX86HTTP, FirmwareARMHTTP}
PlainTFTPFirmware == {FirmwareX86PC, FirmwareX86EFI, FirmwareARMEFI}

BootFileTable(fw, h, p) ==
  CASE fw = FirmwareX86PC -> "undionly.kpxe"
    [] fw = FirmwareX86Ipxe -> "tftp://" \o AdvertiseAddress[h] \o "/undionly.kpxe"
    [] fw = FirmwareX86EFI -> "snp.efi"
    [] fw = FirmwareARMEFI -> "snp-arm64.efi"
    [] fw = FirmwareX86HTTP -> "http://" \o AdvertiseHostPort(h, p) \o "/tftp/snp.efi"
    [] fw = FirmwareARMHTTP -> "http://" \o AdvertiseHostPort(h, p) \o "/tftp/snp-arm64.efi"

ReplyBuilt == oret.called /\ oret.err = ErrNil

\* C5: for each supported Firmware variant offerDHCP fails only when the
\* library cannot construct the reply, and the reply it returns carries
\* exactly the boot filename of the table and, for X86PC, X86EFI and ARMEFI,
\* the TFTP-server-name option equal to the advertise address; for
\* Unsupported and any value outside the enumeration it returns an error and
\* no reply.
C5_BootFileTable ==
  oret.called =>
     /\ oin.fwtype \notin SupportedFirmware =>
          (oret.err # ErrNil /\ oret.resp = NilResp)
     /\ oin.fwtype \in SupportedFirmware =>
          /\ (oret.err = ErrNil) <=> (oin.newReplyErr = ErrNil)
          /\ oret.err # ErrNil => oret.resp = NilResp
          /\ oret.err = ErrNil =>
               /\ oret.resp.opt67 =
                    Some(BootFileTable(oin.fwtype, oin.apiHost, oin.apiPort))
               /\ oin.fwtype \in PlainTFTPFirmware =>
                    oret.resp.opt66 = Some(AdvertiseAddress[oin.apiHost])

\* C5 witness: an HTTP-boot reply for an IPv6 advertise address
C5_Witness ==
  /\ ReplyBuilt
  /\ oin.fwtype = FirmwareX86HTTP
  /\ oin.apiHost = "2001:DB8::1"
  /\ oin.apiPort = 50042
  /\ oret.resp.opt67 = Some("http://[2001:db8::1]:50042/tftp/snp.efi")

\* C6 as stated: every reply carries a server-identifier option, a
\* TFTP-server-name option and a boot-filename option.
C6_Original ==
  ReplyBuilt =>
     (oret.resp.opt54.set /\ oret.resp.opt66.set /\ oret.resp.opt67.set)

\* C6 amended: every reply carries a boot-filename option and has the
\* advertise address in its server-IP header field (siaddr); it carries the
\* TFTP-server-name option exactly when the firmware is X86PC, X86EFI or
\* ARMEFI, and it never carries a server-identifier option (54).
C6_ReplyOptions ==
  ReplyBuilt =>
     /\ oret.resp.opt67.set
     /\ oret.resp.siaddr.valid
     /\ oret.resp.siaddr.text = AdvertiseAddress[oin.apiHost]
     /\ oret.resp.opt66.set <=> (oin.fwtype \in PlainTFTPFirmware)
     /\ ~oret.resp.opt54.set

\* C6 witness: the reply to a client running iPXE has a boot filename and no
\* TFTP server name
C6_Witness ==
  /\ ReplyBuilt
  /\ oin.fwtype = FirmwareX86Ipxe
  /\ oret.resp.opt67 = Some("tftp://10.0.0.1/undionly.kpxe")
  /\ ~oret.resp.opt66.set
  /\ ~oret.resp.opt54.set

\* C7: in every reply offerDHCP builds, the vendor class is the request's
\* when the request has one and "PXEClient" otherwise; the client machine
\* identifier (option 97) is in the reply iff it is in the request, with the
\* same value; the server IP is the configured advertise address.
C7_EchoedOptions ==
  ReplyBuilt =>
     /\ oret.resp.opt60.set
     /\ oret.resp.opt60.val =
          (IF oin.req.opt60.set THEN oin.req.opt60.val ELSE "PXEClient")
     /\ oret.resp.opt97.set <=> oin.req.opt97.set
     /\ oret.resp.opt97.val = oin.req.opt97.val
     /\ oret.resp.siaddr.valid
     /\ oret.resp.siaddr.text = AdvertiseAddress[oin.apiHost]

\* C7 witness: a request with the vendor class "HTTPClient" and a GUID got
\* both echoed
C7_Witness ==
  /\ ReplyBuilt
  /\ oin.req.opt60 = Some("HTTPClient")
  /\ oin.req.opt97 = Some(MkGuid(17, 0))
  /\ oret.resp.opt60 = Some("HTTPClient")
  /\ oret.resp.opt97 = Some(MkGuid(17, 0))
  /\ oret.resp.siaddr.text = "10.0.0.1"

\* ---------------------------------------------------------------------
\* iPXE image patching: patchScript
\* ---------------------------------------------------------------------

\* Bytes are their numeric values.
\* placeholderStart = []byte("# *PLACEHOLDER START*")
placeholderStart ==
  <<35, 32, 42, 80, 76, 65, 67, 69, 72, 79, 76, 68, 69, 82, 32, 83, 84, 65, 82, 84, 42>>
\* placeholderEnd = []byte("# *PLACEHOLDER END*")
placeholderEnd ==
  <<35, 32, 42, 80, 76, 65, 67, 69, 72, 79, 76, 68, 69, 82, 32, 69, 78, 68, 42>>
\* '\n'
Newline == 10

ErrReadFile == "open: no such file or directory"
ErrStartNotFound == "placeholder start not found"
ErrEndNotFound == "placeholder end not found"
ErrEndBeforeStart == "placeholder end before start"
ErrScriptTooLarge == "script size is greater than placeholder space"
ErrMkdirAll == "mkdir: permission denied"
ErrWriteFile == "write: no space left on device"

\* sep occurs in s at the 0-based offset i
MatchAt(s, sep, i) == \A k \in 1..Len(sep) : s[i + k] = sep[k]

\* mutant of BytesIndex: the last occurrence instead of the first
BytesLastIndex(s, sep) ==
  LET hits == {i \in 0..(Len(s) - Len(sep)) : MatchAt(s, sep, i)}
  IN  IF hits = {} THEN 0 - 1
      ELSE CHOOSE i \in hits : \A j \in hits : i >= j

\* bytes.Index: the 0-based offset of the first occurrence of sep in s, -1
\* when there is none.
BytesIndex(s, sep) ==
  LET hits == {i \in 0..(Len(s) - Len(sep)) : MatchAt(s, sep, i)}
  IN  IF hits = {} THEN 0 - 1
      ELSE CHOOSE i \in hits : \A j \in hits : i <= j

\* bytes.Repeat([]byte{b}, n)
BytesRepeat(b, n) == [i \in 1..n |-> b]

\* a variant that copies behind the start marker and keeps it
CopyIntoBehindMarker(contents, start, end, from) ==
  LET first == start + Len(placeholderStart)
      n == IF end - first < Len(from) THEN end - first ELSE Len(from)
  IN  [i \in 1..Len(contents) |->
         IF i > first /\ i <= first + n THEN from[i - first] ELSE contents[i]]

\* copy(contents[start:end], from): min(end-start, len(from)) bytes are
\* copied to the 0-based offsets start.. of contents.
CopyInto(contents, start, end, from) ==
  LET n == IF end - start < Len(from) THEN end - start ELSE Len(from)
  IN  [i \in 1..Len(contents) |->
         IF i > start /\ i <= start + n THEN from[i - start] ELSE contents[i]]

\* the environment's behaviour during one call: which file operation fails
IOOutcomes == {"ok", "ReadFile", "MkdirAll", "WriteFileOpen", "WriteFileShort"}

\* mutant of WriteFile: the file is opened for appending, not truncated
WriteFileAppend(old, data, io) ==
  CASE io = "WriteFileOpen"  -> [err |-> ErrWriteFile, file |-> old]
    [] io = "WriteFileShort" -> [err |-> ErrWriteFile, file |-> old]
    [] OTHER                 -> [err |-> ErrNil, file |-> File(old.data \o data)]

\* os.WriteFile truncates the file on open and then writes: a failed open
\* leaves the destination as it was, a failed write leaves a truncated file.
WriteFile(old, data, io) ==
  CASE io = "WriteFileOpen"  -> [err |-> ErrWriteFile, file |-> old]
    [] io = "WriteFileShort" ->
         [err |-> ErrWriteFile, file |-> File(SubSeq(data, 1, Len(data) \div 2))]
    [] OTHER                 -> [err |-> ErrNil, file |-> File(data)]

\* mutant of Pad: the script is not padded, the rest of the window keeps
\* the image's bytes
PadWithoutFill(script, length) == script

\* script = append(script, bytes.Repeat([]byte{'\n'}, length-len(script))...)
Pad(script, length) == script \o BytesRepeat(Newline, length - Len(script))

\* mutant of ScriptFits: no size check, copy() truncates the script
ScriptFitsAlways(script, length) == TRUE

\* the negation of the guard `if len(script) > length`
ScriptFits(script, length) == ~(Len(script) > length)

\* patchScript(source, destination, script): the error returned and the
\* destination file afterwards.
PatchScript(src, dst, script, io) ==
  IF ~src.exists \/ io = "ReadFile" THEN [err |-> ErrReadFile, dst |-> dst]
  ELSE
    LET contents == src.data
        start    == BytesIndex(contents, placeholderStart)
        end0     == BytesIndex(contents, placeholderEnd)
        end      == end0 + Len(placeholderEnd)
        length   == end - start
    IN  IF start = 0 - 1 THEN [err |-> ErrStartNotFound, dst |-> dst]
        ELSE IF end0 = 0 - 1 THEN [err |-> ErrEndNotFound, dst |-> dst]
        ELSE IF end0 < start THEN [err |-> ErrEndBeforeStart, dst |-> dst]
        ELSE IF ~ScriptFits(script, length)
          THEN [err |-> ErrScriptTooLarge, dst |-> dst]
        ELSE
          LET patched == CopyInto(contents, start, end, Pad(script, length))
          IN  IF io = "MkdirAll" THEN [err |-> ErrMkdirAll, dst |-> dst]
              ELSE LET w == WriteFile(dst, patched, io)
                   IN  [err |-> w.err, dst |-> w.file]

\* Inputs: images and scripts are concatenations of chunks.
Concat(chunks) ==
  LET RECURSIVE Go(_)
      Go(i) == IF i > Len(chunks) THEN <<>> ELSE chunks[i] \o Go(i + 1)
  IN  Go(1)
ChunkLists(alphabet, n) ==
  UNION {[1..k -> alphabet] : k \in 0..n}
FillerByte == <<120>>
\* a script line as long as the end marker, so that a line and a marker fill
\* the smallest placeholder window exactly
ScriptLine == BytesRepeat(97, Len(placeholderEnd))
ImageChunks == {placeholderStart, placeholderEnd, FillerByte}
ScriptChunks == {placeholderStart, ScriptLine}
SourceImages == {Concat(c) : c \in ChunkLists(ImageChunks, MaxImageChunks)}
Scripts == {Concat(c) : c \in ChunkLists(ScriptChunks, MaxScriptChunks)}
OldDestination == File(<<111, 108, 100>>)

InitPatch ==
  /\ psrc \in {NoFile} \cup {File(b) : b \in SourceImages}
  /\ pdst \in {NoFile, OldDestination}
  /\ pscript \in Scripts
  /\ pret = NoPatchCall
  /\ ValidateIdle
  /\ OfferIdle
  /\ ProxyIdle
  /\ ProviderIdle
  /\ MoreIdle

CallPatchScript ==
  /\ pret.n < MaxPatchCalls
  /\ \E io \in IOOutcomes :
       LET r == PatchScript(psrc, pdst, pscript, io)
       IN  /\ pdst' = r.dst
           /\ pret' = [n     |-> pret.n + 1,
                       err   |-> r.err,
                       ok    |-> IF r.err = ErrNil THEN pret.ok + 1 ELSE pret.ok,
                       first |-> IF r.err = ErrNil /\ pret.ok = 0
                                   THEN r.dst ELSE pret.first]
  /\ UNCHANGED <<psrc, pscript, validateVars, offerVars, proxyVars, providerVars, moreVars>>

NextPatch == CallPatchScript
SpecPatch == InitPatch /\ [][NextPatch]_vars

\* ---------------------------------------------------------------------
\* Patched image layout
\* ---------------------------------------------------------------------

\* the placeholder window of the source image, as 0-based offsets
\* [WindowStart, WindowEnd)
WindowStart == BytesIndex(psrc.data, placeholderStart)
WindowEnd == BytesIndex(psrc.data, placeholderEnd) + Len(placeholderEnd)
PatchSucceeded == pret.n > 0 /\ pret.err = ErrNil

\* C10: after a successful patchScript the destination is as long as the
\* source, every byte outside the window from the start marker to the end of
\* the end marker equals the source byte at the same offset, and the window
\* holds the script followed only by newline bytes, filling it exactly.
C10_PatchedLayout ==
  PatchSucceeded =>
    /\ pdst.exists
    /\ Len(pdst.data) = Len(psrc.data)
    /\ Len(pscript) <= WindowEnd - WindowStart
    /\ \A i \in 1..Len(psrc.data) :
         IF i <= WindowStart \/ i > WindowEnd
           THEN pdst.data[i] = psrc.data[i]
           ELSE IF i - WindowStart <= Len(pscript)
                  THEN pdst.data[i] = pscript[i - WindowStart]
                  ELSE pdst.data[i] = Newline

\* a successful patch of an image with bytes on both sides of the window and
\* a non-empty script that needs padding
C10_Witness ==
  /\ PatchSucceeded
  /\ WindowStart > 0
  /\ WindowEnd < Len(psrc.data)
  /\ Len(pscript) > 0
  /\ Len(pscript) < WindowEnd - WindowStart

\* ---------------------------------------------------------------------
\* Patch failures and repeatability
\* ---------------------------------------------------------------------

\* sep occurs in s at the 0-based offset i
Occurs(s, sep, i) == i + Len(sep) <= Len(s) /\ SubSeq(s, i + 1, i + Len(sep)) = sep
Contains(s, sep) == \E i \in 0..Len(s) : Occurs(s, sep, i)
FirstOccurrence(s, sep) ==
  CHOOSE i \in 0..Len(s) :
    Occurs(s, sep, i) /\ \A j \in 0..(i - 1) : ~Occurs(s, sep, j)
\* the source has a placeholder window: both markers, the first end marker
\* not before the first start marker
HasWindow ==
  /\ psrc.exists
  /\ Contains(psrc.data, placeholderStart)
  /\ Contains(psrc.data, placeholderEnd)
  /\ FirstOccurrence(psrc.data, placeholderEnd)
       >= FirstOccurrence(psrc.data, placeholderStart)
WindowLength ==
  FirstOccurrence(psrc.data, placeholderEnd) + Len(placeholderEnd)
    - FirstOccurrence(psrc.data, placeholderStart)
PatchCalled == pret'.n = pret.n + 1

C11_TooLargeStep ==
  (PatchCalled /\ HasWindow /\ Len(pscript) > WindowLength)
    => (pret'.err # ErrNil /\ pdst' = pdst)
C11_ExactFitStep ==
  (PatchCalled /\ HasWindow /\ Len(pscript) = WindowLength)
    => /\ pret'.err # ErrScriptTooLarge
       /\ pret'.err = ErrNil =>
            SubSeq(pdst'.data,
                   FirstOccurrence(psrc.data, placeholderStart) + 1,
                   FirstOccurrence(psrc.data, placeholderStart) + WindowLength)
              = pscript

\* C11: a patchScript call with a script strictly longer than the placeholder
\* window fails and leaves the destination as it was; a script exactly as
\* long as the window is not rejected for its size and, when the call
\* succeeds, fills the window with no padding.
C11_ScriptSizeLimit == [][C11_TooLargeStep /\ C11_ExactFitStep]_vars

\* a call with a too large script failed and the old destination is intact
C11_Witness ==
  /\ pret.n > 0
  /\ HasWindow
  /\ Len(pscript) > WindowLength
  /\ pret.err = ErrScriptTooLarge
  /\ pdst = OldDestination

C12_MarkerStep ==
  (PatchCalled /\ psrc.exists /\ ~HasWindow)
    => (pret'.err # ErrNil /\ pdst' = pdst)

\* C12: a patchScript call on a source without the start marker, without the
\* end marker, or whose first end marker lies before its first start marker
\* fails and neither creates nor modifies the destination.
C12_MarkerErrors == [][C12_MarkerStep]_vars

\* a call on a source that has both markers, the first end marker before the
\* first start marker, failed and created no destination
C12_Witness ==
  /\ pret.n > 0
  /\ psrc.exists
  /\ Contains(psrc.data, placeholderStart)
  /\ Contains(psrc.data, placeholderEnd)
  /\ ~HasWindow
  /\ pret.err = ErrEndBeforeStart
  /\ ~pdst.exists

C13_SameOutput == (PatchSucceeded /\ pret.ok >= 2) => pdst = pret.first
C13_SourceKept == psrc' = psrc

\* C13: whenever a patchScript call succeeds after an earlier successful call
\* with the same source and script, the destination is byte-identical to the
\* one the first call produced; no call modifies the source file.
C13_Repeatable == []C13_SameOutput /\ [][C13_SourceKept]_vars

\* two calls succeeded, the second over the first one's destination
C13_Witness ==
  /\ PatchSucceeded
  /\ pret.ok >= 2
  /\ pret.first.exists
  /\ Len(pscript) > 0

\* ---------------------------------------------------------------------
\* Provider.Run: startup (client, patching, handlers) and the components
\* ---------------------------------------------------------------------

\* fmt.Errorf("<msg>: %w", err)
Wrap(msg, err) == msg \o ": " \o err

ErrBuildClient == Wrap("failed to build omni client", "failed to create Omni client")
ErrProviderStatus == Wrap("failed to create/update provider status", "unavailable")
ErrConfigHandler == Wrap("failed to create config handler", "unavailable")
ErrTemplate == "template: exec error"
ErrPatchScript == ErrStartNotFound
ErrCreateOut == "open: permission denied"
ErrStartZbin == Wrap("failed to run zbin", "fork/exec /bin/zbin: no such file or directory")

\* the components Provider.Run starts with eg.Go(p.runComponent(name, ...))
Components == {"server", "reverse tunnel", "DHCP proxy", "TFTP server"}

\* a variant that compresses before the raw legacy image is patched
PatchStepsCompressFirst ==
  << [kind |-> "script",   msg |-> "failed to build boot script",
      src |-> "", out |-> ""],
     [kind |-> "patch",    msg |-> "failed to patch \"ipxe\"",
      src |-> "amd64/ipxe.efi", out |-> "ipxe.efi"],
     [kind |-> "patch",    msg |-> "failed to patch \"ipxe\"",
      src |-> "arm64/ipxe.efi", out |-> "ipxe-arm64.efi"],
     [kind |-> "patch",    msg |-> "failed to patch \"snp\"",
      src |-> "amd64/snp.efi", out |-> "snp.efi"],
     [kind |-> "patch",    msg |-> "failed to patch \"snp\"",
      src |-> "arm64/snp.efi", out |-> "snp-arm64.efi"],
     [kind |-> "compress", msg |-> "failed to compress undionly.kpxe",
      src |-> "amd64/kpxe/undionly.kpxe.bin.patched", out |-> "undionly.kpxe"],
     [kind |-> "patch",    msg |-> "failed to patch undionly.kpxe.bin",
      src |-> "amd64/kpxe/undionly.kpxe.bin", out |-> "undionly.kpxe.bin.patched"],
     [kind |-> "compress", msg |-> "failed to compress undionly.kpxe.0",
      src |-> "amd64/kpxe/undionly.kpxe.bin.patched", out |-> "undionly.kpxe.0"] >>

\* patchBinaries: the steps in program order, each with the file it reads
\* (under constants.IPXEPath) and the file it writes ("" for none)
PatchSteps ==
  << [kind |-> "script",   msg |-> "failed to build boot script",
      src |-> "", out |-> ""],
     [kind |-> "patch",    msg |-> "failed to patch \"ipxe\"",
      src |-> "amd64/ipxe.efi", out |-> "ipxe.efi"],
     [kind |-> "patch",    msg |-> "failed to patch \"ipxe\"",
      src |-> "arm64/ipxe.efi", out |-> "ipxe-arm64.efi"],
     [kind |-> "patch",    msg |-> "failed to patch \"snp\"",
      src |-> "amd64/snp.efi", out |-> "snp.efi"],
     [kind |-> "patch",    msg |-> "failed to patch \"snp\"",
      src |-> "arm64/snp.efi", out |-> "snp-arm64.efi"],
     [kind |-> "patch",    msg |-> "failed to patch undionly.kpxe.bin",
      src |-> "amd64/kpxe/undionly.kpxe.bin", out |-> "undionly.kpxe.bin.patched"],
     [kind |-> "compress", msg |-> "failed to compress undionly.kpxe",
      src |-> "amd64/kpxe/undionly.kpxe.bin.patched", out |-> "undionly.kpxe"],
     [kind |-> "compress", msg |-> "failed to compress undionly.kpxe.0",
      src |-> "amd64/kpxe/undionly.kpxe.bin.patched", out |-> "undionly.kpxe.0"] >>

\* what running /bin/zbin can do: it cannot be started, or it exits with a
\* status after writing diagnostics to its standard error
ZbinRuns ==
  {[started |-> FALSE, exit |-> 0, stderr |-> ""]} \cup
  {[started |-> TRUE, exit |-> c, stderr |-> d] :
     c \in {0, 1, 2}, d \in {"", "zbin: bad zinfo", "out of memory"}}

\* cmd.Run() with cmd.Stderr unset: the child's standard error is discarded
\* and the *exec.ExitError of a nonzero exit has an empty Stderr field (only
\* cmd.Output() fills it).
CmdRun(zbin) ==
  IF ~zbin.started THEN [kind |-> "start", code |-> 0 - 1, Stderr |-> ""]
  ELSE IF zbin.exit # 0 THEN [kind |-> "exit", code |-> zbin.exit, Stderr |-> ""]
  ELSE [kind |-> "ok", code |-> 0, Stderr |-> ""]

\* compressKPXE(binFile, infoFile, outFile): the error returned and whether
\* outFile was created (os.Create truncates it before zbin runs)
CompressKPXE(createOK, zbin) ==
  IF ~createOK THEN [err |-> ErrCreateOut, created |-> FALSE]
  ELSE
    LET r == CmdRun(zbin)
    IN  CASE r.kind = "exit" ->
               [err |-> "zbin failed with exit code " \o Itoa(r.code)
                          \o ", stderr: " \o r.Stderr,
                created |-> TRUE]
          [] r.kind = "start" -> [err |-> ErrStartZbin, created |-> TRUE]
          [] OTHER -> [err |-> ErrNil, created |-> TRUE]

\* what one step of patchBinaries can return: [err, created, zbin], created
\* telling whether the step's output file exists afterwards
StepOutcomes(st) ==
  CASE st.kind = "script" ->
         {[err |-> e, created |-> FALSE, zbin |-> NoZbin] : e \in {ErrNil, ErrTemplate}}
    [] st.kind = "patch" ->
         {[err |-> ErrNil, created |-> TRUE, zbin |-> NoZbin],
          [err |-> ErrPatchScript, created |-> FALSE, zbin |-> NoZbin],
          [err |-> ErrWriteFile, created |-> TRUE, zbin |-> NoZbin]}
    [] OTHER ->
         {[err |-> CompressKPXE(c, z).err, created |-> CompressKPXE(c, z).created,
           zbin |-> z] : c \in BOOLEAN, z \in ZbinRuns}

\* the files after a step that returned r: a successful step wrote its whole
\* output, a failed one that created its output left it incomplete
WriteOut(files, out, r) ==
  IF ~r.created THEN files
  ELSE [files EXCEPT ![out] = IF r.err = ErrNil THEN "patched " \o out
                              ELSE "incomplete"]

\* omni.BuildClient
BuildClient ==
  /\ prov.pc = "start"
  /\ \E ok \in BOOLEAN :
       prov' = IF ok THEN [prov EXCEPT !.pc = "ensureStatus"]
               ELSE [pc |-> "returned", err |-> ErrBuildClient]
  /\ UNCHANGED <<patch, peg, srv, tun, tftp, validateVars, offerVars, proxyVars, patchVars, moreVars>>

\* omniClient.EnsureProviderStatus
EnsureProviderStatus ==
  /\ prov.pc = "ensureStatus"
  /\ \E ok \in BOOLEAN :
       prov' = IF ok THEN [prov EXCEPT !.pc = "newHandler"]
               ELSE [pc |-> "returned", err |-> ErrProviderStatus]
  /\ UNCHANGED <<patch, peg, srv, tun, tftp, validateVars, offerVars, proxyVars, patchVars, moreVars>>

\* mutant of PatchBinariesStep: a failing step is recorded but patchBinaries
\* goes on with the next step
PatchBinariesStepIgnoreError ==
  /\ prov.pc = "newHandler"
  /\ patch.step < Len(PatchSteps)
  /\ LET st == PatchSteps[patch.step + 1]
     IN  \E r \in StepOutcomes(st) :
           /\ patch' = [patch EXCEPT
                          !.step = @ + 1,
                          !.failed = @ \/ r.err # ErrNil,
                          !.files = WriteOut(@, st.out, r)]
           /\ prov' = prov
  /\ UNCHANGED <<peg, srv, tun, tftp, validateVars, offerVars, proxyVars, patchVars, moreVars>>

\* ipxe.NewHandler -> patchBinaries: the next step; the first failing step
\* ends patchBinaries, NewHandler and Provider.Run
PatchBinariesStep ==
  /\ prov.pc = "newHandler"
  /\ patch.step < Len(PatchSteps)
  /\ LET st == PatchSteps[patch.step + 1]
     IN  \E r \in StepOutcomes(st) :
           LET files == WriteOut(patch.files, st.out, r)
           IN  IF r.err = ErrNil
                 THEN /\ patch' = [patch EXCEPT !.step = @ + 1, !.files = files]
                      /\ prov' = prov
                 ELSE /\ patch' = [patch EXCEPT !.failed = TRUE, !.files = files,
                                                !.err = Wrap(st.msg, r.err),
                                                !.zbin = r.zbin]
                      /\ prov' = [pc  |-> "returned",
                                  err |-> Wrap("failed to create iPXE handler",
                                               Wrap(st.msg, r.err))]
  /\ UNCHANGED <<peg, srv, tun, tftp, validateVars, offerVars, proxyVars, patchVars, moreVars>>

\* patchBinaries returned nil: NewHandler returns the handler
NewHandlerReturn ==
  /\ prov.pc = "newHandler"
  /\ patch.step = Len(PatchSteps)
  /\ prov' = [prov EXCEPT !.pc = "configHandler"]
  /\ UNCHANGED <<patch, peg, srv, tun, tftp, validateVars, offerVars, proxyVars, patchVars, moreVars>>

\* config.NewHandler
ConfigNewHandler ==
  /\ prov.pc = "configHandler"
  /\ \E ok \in BOOLEAN :
       prov' = IF ok THEN [prov EXCEPT !.pc = "components"]
               ELSE [pc |-> "returned", err |-> ErrConfigHandler]
  /\ UNCHANGED <<patch, peg, srv, tun, tftp, validateVars, offerVars, proxyVars, patchVars, moreVars>>

\* server.New ... tftp.NewServer, errgroup.WithContext(ctx) and the four
\* eg.Go(p.runComponent(...)): every component's goroutine is started
StartComponents ==
  /\ prov.pc = "components"
  /\ prov' = [prov EXCEPT !.pc = "wait"]
  /\ peg' = [peg EXCEPT !.ctx = peg.parent]
  /\ srv' = [srv EXCEPT !.pc = "start"]
  /\ tun' = [tun EXCEPT !.pc = "start"]
  /\ run' = [run EXCEPT !.pc = "start"]
  /\ tftp' = [tftp EXCEPT !.pc = "start"]
  /\ UNCHANGED <<patch, cfg, ctxDone, sock, serve, closer, handlers, sent,
                 validateVars, offerVars, patchVars, moreVars>>

\* the context handed to Provider.Run is cancelled (SIGTERM, interrupt); the
\* errgroup's context is derived from it
ParentCancel ==
  /\ prov.pc \notin {"idle", "returned"}
  /\ ~peg.parent
  /\ peg' = [peg EXCEPT !.parent = TRUE,
                        !.ctx = IF prov.pc = "wait" THEN TRUE ELSE @]
  /\ UNCHANGED <<prov, patch, srv, tun, tftp, validateVars, offerVars, proxyVars, patchVars, moreVars>>

\* ---------------------------------------------------------------------
\* The components under Provider.Run's errgroup
\* ---------------------------------------------------------------------

ErrListenHTTP == Wrap("failed to run server", "listen tcp: address already in use")
ErrShutdownHTTP == Wrap("failed to shutdown iPXE server", "context deadline exceeded")
ErrTunnel == Wrap("failed to serve reverse tunnel", "unavailable")
ErrBindTFTP == "listen udp :69: bind: address already in use"

\* errgroup: the first non-nil error is kept
FirstErr(old, new) == IF old = ErrNil THEN new ELSE old

\* -- server.Server.Run --------------------------------------------------

\* errgroup.WithContext(ctx) and the two eg.Go calls
ServerRunStart ==
  /\ srv.pc = "start"
  /\ srv' = [srv EXCEPT !.pc = "waiting", !.ctx = peg.ctx,
                        !.listen = "serving", !.stopper = "waiting"]
  /\ UNCHANGED <<prov, patch, peg, tun, tftp, validateVars, offerVars, proxyVars, patchVars, moreVars>>

\* the cancellation of Provider.Run's errgroup context reaches the derived one
ServerCtxDone ==
  /\ srv.pc = "waiting"
  /\ peg.ctx /\ ~srv.ctx
  /\ srv' = [srv EXCEPT !.ctx = TRUE]
  /\ UNCHANGED <<prov, patch, peg, tun, tftp, validateVars, offerVars, proxyVars, patchVars, moreVars>>

\* httpServer.ListenAndServe fails (bind or accept error)
ServerListenFail ==
  /\ srv.listen = "serving"
  /\ ~srv.shut
  /\ srv' = [srv EXCEPT !.listen = "returned", !.ctx = TRUE,
                        !.err = FirstErr(@, ErrListenHTTP)]
  /\ UNCHANGED <<prov, patch, peg, tun, tftp, validateVars, offerVars, proxyVars, patchVars, moreVars>>

\* httpServer.ListenAndServe returns http.ErrServerClosed after Shutdown
ServerListenClosed ==
  /\ srv.listen = "serving"
  /\ srv.shut
  /\ srv' = [srv EXCEPT !.listen = "returned"]
  /\ UNCHANGED <<prov, patch, peg, tun, tftp, validateVars, offerVars, proxyVars, patchVars, moreVars>>

\* <-ctx.Done(); httpServer.Shutdown with a 5 second timeout: connections
\* drained in time, or the deadline passes and Shutdown returns its error
ServerShutdown ==
  /\ srv.stopper = "waiting"
  /\ srv.ctx
  /\ \E timedOut \in BOOLEAN :
       srv' = [srv EXCEPT !.stopper = "returned", !.shut = TRUE, !.ctx = TRUE,
                          !.err = IF timedOut THEN FirstErr(@, ErrShutdownHTTP) ELSE @]
  /\ UNCHANGED <<prov, patch, peg, tun, tftp, validateVars, offerVars, proxyVars, patchVars, moreVars>>

\* eg.Wait()
ServerRunReturn ==
  /\ srv.pc = "waiting"
  /\ srv.listen = "returned"
  /\ srv.stopper = "returned"
  /\ srv' = [srv EXCEPT !.pc = "returned"]
  /\ UNCHANGED <<prov, patch, peg, tun, tftp, validateVars, offerVars, proxyVars, patchVars, moreVars>>

\* -- omni.Client.RunReverseTunnel ---------------------------------------

\* reverseTunnelServer.Serve(ctx) fails
TunnelFail ==
  /\ tun.pc = "start"
  /\ tun' = [pc |-> "returned", err |-> ErrTunnel]
  /\ UNCHANGED <<prov, patch, peg, srv, tftp, validateVars, offerVars, proxyVars, patchVars, moreVars>>

\* Serve(ctx) returns after the context was cancelled: with the gRPC code
\* Canceled (nil is returned) or with another error (wrapped)
TunnelStop ==
  /\ tun.pc = "start"
  /\ peg.ctx
  /\ \E e \in {ErrNil, ErrTunnel} : tun' = [pc |-> "returned", err |-> e]
  /\ UNCHANGED <<prov, patch, peg, srv, tftp, validateVars, offerVars, proxyVars, patchVars, moreVars>>

\* -- tftp.Server.Run ----------------------------------------------------

\* os.MkdirAll(constants.TFTPPath) fails: Run returns the error
TftpMkdirFail ==
  /\ tftp.pc = "start"
  /\ tftp' = [tftp EXCEPT !.pc = "returned", !.err = ErrMkdirAll]
  /\ UNCHANGED <<prov, patch, peg, srv, tun, validateVars, offerVars, proxyVars, patchVars, moreVars>>

\* os.MkdirAll succeeds; tftp.NewServer(readHandler, nil), single port mode,
\* errgroup.WithContext(ctx) and the two eg.Go calls
TftpRunStart ==
  /\ tftp.pc = "start"
  /\ tftp' = [tftp EXCEPT !.pc = "waiting", !.ctx = peg.ctx,
                          !.listen = "binding", !.stopper = "waiting"]
  /\ UNCHANGED <<prov, patch, peg, srv, tun, validateVars, offerVars, proxyVars, patchVars, moreVars>>

\* the cancellation of the caller's context reaches the derived one
TftpCtxDone ==
  /\ tftp.pc = "waiting"
  /\ peg.ctx /\ ~tftp.ctx
  /\ tftp' = [tftp EXCEPT !.ctx = TRUE]
  /\ UNCHANGED <<prov, patch, peg, srv, tun, validateVars, offerVars, proxyVars, patchVars, moreVars>>

\* srv.ListenAndServe(":69"): the UDP socket cannot be bound
TftpBindFail ==
  /\ tftp.listen = "binding"
  /\ tftp' = [tftp EXCEPT !.listen = "returned", !.ctx = TRUE,
                          !.err = FirstErr(@, ErrBindTFTP)]
  /\ UNCHANGED <<prov, patch, peg, srv, tun, validateVars, offerVars, proxyVars, patchVars, moreVars>>

\* srv.ListenAndServe(":69"): the socket is bound, the serve loop runs
TftpBindOK ==
  /\ tftp.listen = "binding"
  /\ tftp' = [tftp EXCEPT !.listen = "serving"]
  /\ UNCHANGED <<prov, patch, peg, srv, tun, validateVars, offerVars, proxyVars, patchVars, moreVars>>

\* <-ctx.Done(); srv.Shutdown(): the server is told to stop
TftpShutdownCall ==
  /\ tftp.stopper = "waiting"
  /\ tftp.ctx
  /\ tftp' = [tftp EXCEPT !.stopper = "shutdown", !.shut = TRUE]
  /\ UNCHANGED <<prov, patch, peg, srv, tun, validateVars, offerVars, proxyVars, patchVars, moreVars>>

SessionsOver == \A i \in 1..Len(tftp.sessions) : tftp.sessions[i].pc = "done"

\* srv.Shutdown() returns once the outstanding transfers are over; the
\* goroutine returns nil
TftpShutdownReturn ==
  /\ tftp.stopper = "shutdown"
  /\ SessionsOver
  /\ tftp' = [tftp EXCEPT !.stopper = "returned"]
  /\ UNCHANGED <<prov, patch, peg, srv, tun, validateVars, offerVars, proxyVars, patchVars, moreVars>>

\* the serve loop sees the shutdown and ListenAndServe returns nil
TftpServeReturn ==
  /\ tftp.listen = "serving"
  /\ tftp.shut
  /\ SessionsOver
  /\ tftp' = [tftp EXCEPT !.listen = "returned"]
  /\ UNCHANGED <<prov, patch, peg, srv, tun, validateVars, offerVars, proxyVars, patchVars, moreVars>>

\* eg.Wait()
TftpRunReturn ==
  /\ tftp.pc = "waiting"
  /\ tftp.listen = "returned"
  /\ tftp.stopper = "returned"
  /\ tftp' = [tftp EXCEPT !.pc = "returned"]
  /\ UNCHANGED <<prov, patch, peg, srv, tun, validateVars, offerVars, proxyVars, patchVars, moreVars>>

\* -- Provider.Run: errgroup ---------------------------------------------

\* the cancellation of Provider.Run's errgroup context reaches Proxy.Run
DhcpCtxDone == peg.ctx /\ CtxCancel

\* the state of the goroutine running a component's Run
ComponentRun(c) ==
  CASE c = "server"         -> [pc |-> srv.pc, err |-> srv.err]
    [] c = "reverse tunnel" -> tun
    [] c = "DHCP proxy"     -> run
    [] OTHER                -> [pc |-> tftp.pc, err |-> tftp.err]

\* mutant of ComponentReturn: the components run under a plain errgroup.Group,
\* whose context no error cancels
ComponentReturnNoCancel(c) ==
  /\ prov.pc = "wait"
  /\ c \notin peg.done
  /\ ComponentRun(c).pc = "returned"
  /\ peg' = [peg EXCEPT !.done = @ \cup {c},
                        !.err = FirstErr(@, ComponentRun(c).err)]
  /\ UNCHANGED <<prov, patch, srv, tun, tftp, validateVars, offerVars, proxyVars, patchVars, moreVars>>

\* runComponent's closure returns what the component returned; the errgroup
\* keeps the first error and cancels its context on it
ComponentReturn(c) ==
  /\ prov.pc = "wait"
  /\ c \notin peg.done
  /\ ComponentRun(c).pc = "returned"
  /\ peg' = [peg EXCEPT !.done = @ \cup {c},
                        !.err = FirstErr(@, ComponentRun(c).err),
                        !.ctx = @ \/ ComponentRun(c).err # ErrNil]
  /\ UNCHANGED <<prov, patch, srv, tun, tftp, validateVars, offerVars, proxyVars, patchVars, moreVars>>

\* eg.Wait() returns once every component returned
ProviderReturn ==
  /\ prov.pc = "wait"
  /\ peg.done = Components
  /\ prov' = [pc  |-> "returned",
              err |-> IF peg.err = ErrNil THEN ErrNil
                      ELSE Wrap("failed to run provider", peg.err)]
  /\ peg' = [peg EXCEPT !.ctx = TRUE]
  /\ UNCHANGED <<patch, srv, tun, tftp, validateVars, offerVars, proxyVars, patchVars, moreVars>>

InitProvider ==
  /\ prov = Goroutine("start")
  /\ patch = NoPatchBinaries
  /\ peg = NoErrgroup
  /\ srv = NoServerRun
  /\ tun = NoTunnel
  /\ tftp = NoTftpRun
  /\ ValidateIdle
  /\ OfferIdle
  /\ ProxyIdle
  /\ PatchIdle
  /\ MoreIdle

NextProvider ==
  \/ BuildClient
  \/ EnsureProviderStatus
  \/ PatchBinariesStep
  \/ NewHandlerReturn
  \/ ConfigNewHandler
  \/ StartComponents
  \/ ParentCancel
  \/ ServerRunStart
  \/ ServerCtxDone
  \/ ServerListenFail
  \/ ServerListenClosed
  \/ ServerShutdown
  \/ ServerRunReturn
  \/ TunnelFail
  \/ TunnelStop
  \/ NewServerFail
  \/ NewServerOK
  \/ DhcpCtxDone
  \/ ServeReadError
  \/ ServeReadClosed
  \/ CloserClose
  \/ RunReturn
  \/ TftpMkdirFail
  \/ TftpRunStart
  \/ TftpCtxDone
  \/ TftpBindFail
  \/ TftpBindOK
  \/ TftpShutdownCall
  \/ TftpShutdownReturn
  \/ TftpServeReturn
  \/ TftpRunReturn
  \/ \E c \in Components : ComponentReturn(c)
  \/ ProviderReturn

SpecProvider == InitProvider /\ [][NextProvider]_vars

\* ---------------------------------------------------------------------
\* Patch-then-serve ordering
\* ---------------------------------------------------------------------

ComponentStarted(c) ==
  CASE c = "server"         -> srv.pc # "idle"
    [] c = "reverse tunnel" -> tun.pc # "idle"
    [] c = "DHCP proxy"     -> run.pc # "idle"
    [] OTHER                -> tftp.pc # "idle"
AnyComponentStarted == \E c \in Components : ComponentStarted(c)
PatchedFiles == {PatchSteps[i].out : i \in 2..Len(PatchSteps)}
PatchComplete ==
  /\ patch.step = Len(PatchSteps)
  /\ ~patch.failed
  /\ \A f \in PatchedFiles : patch.files[f] = "patched " \o f

\* C14: a component of Provider.Run is started only after every step of
\* patchBinaries succeeded, and once a patch or compression step has failed
\* Provider.Run has returned an error and no component is or becomes started.
C14_PatchThenServe ==
  /\ AnyComponentStarted => PatchComplete
  /\ patch.failed =>
       (~AnyComponentStarted /\ prov.pc = "returned" /\ prov.err # ErrNil)

\* the TFTP server and the DHCP proxy are serving, after a complete patch
C14_Witness ==
  /\ tftp.listen = "serving"
  /\ sock = "open"
  /\ PatchComplete

\* ---------------------------------------------------------------------
\* Compressor failure
\* ---------------------------------------------------------------------

\* the failing step of patchBinaries, when there is one
FailedStep == PatchSteps[patch.step + 1]
CompressorExitedNonzero ==
  /\ patch.failed
  /\ FailedStep.kind = "compress"
  /\ patch.zbin.started
  /\ patch.zbin.exit # 0

\* C15: when the compressor exits with a nonzero status, the error of the
\* compression step carries the exit code and the diagnostic output the
\* compressor wrote to its standard error.
C15_Original ==
  CompressorExitedNonzero =>
    patch.err = Wrap(FailedStep.msg,
                     "zbin failed with exit code " \o Itoa(patch.zbin.exit)
                       \o ", stderr: " \o patch.zbin.stderr)

\* ---------------------------------------------------------------------
\* TFTP: cleanPath and handleRead's path
\* ---------------------------------------------------------------------

\* Paths are sequences of one-character strings.
Sep == "/"
\* constants.TFTPPath = "/var/lib/tftp"
TFTPPath == <<"/", "v", "a", "r", "/", "l", "i", "b", "/", "t", "f", "t", "p">>

\* the elements of a path between its separators (empty ones included)
RECURSIVE SplitFrom(_, _, _)
SplitFrom(path, i, cur) ==
  IF i > Len(path) THEN <<cur>>
  ELSE IF path[i] = Sep THEN <<cur>> \o SplitFrom(path, i + 1, <<>>)
  ELSE SplitFrom(path, i + 1, Append(cur, path[i]))
Split(path) == SplitFrom(path, 1, <<>>)

RECURSIVE JoinFrom(_, _)
JoinFrom(elems, i) ==
  IF i > Len(elems) THEN <<>>
  ELSE IF i = Len(elems) THEN elems[i]
  ELSE elems[i] \o <<Sep>> \o JoinFrom(elems, i + 1)

\* filepath.IsAbs
IsAbs(path) == Len(path) > 0 /\ path[1] = Sep

\* filepath.Clean's pass over the elements: empty and "." elements are
\* dropped, ".." removes the element before it, is dropped at the root of a
\* rooted path and is kept at the start of a relative one
RECURSIVE CleanElems(_, _, _, _)
CleanElems(elems, i, rooted, out) ==
  IF i > Len(elems) THEN out
  ELSE
    LET el == elems[i]
    IN  IF el = <<>> \/ el = <<".">> THEN CleanElems(elems, i + 1, rooted, out)
        ELSE IF el = <<".", ".">>
          THEN IF Len(out) > 0 /\ out[Len(out)] # <<".", ".">>
                 THEN CleanElems(elems, i + 1, rooted, SubSeq(out, 1, Len(out) - 1))
               ELSE IF rooted THEN CleanElems(elems, i + 1, rooted, out)
               ELSE CleanElems(elems, i + 1, rooted, Append(out, el))
        ELSE CleanElems(elems, i + 1, rooted, Append(out, el))

\* filepath.Clean
Clean(path) ==
  IF path = <<>> THEN <<".">>
  ELSE
    LET rooted == IsAbs(path)
        body   == JoinFrom(CleanElems(Split(path), 1, rooted, <<>>), 1)
        res    == IF rooted THEN <<Sep>> \o body ELSE body
    IN  IF res = <<>> THEN <<".">> ELSE res

\* filepath.Rel("/", path) for a clean absolute path
RelToRoot(path) == IF path = <<Sep>> THEN <<".">> ELSE SubSeq(path, 2, Len(path))

\* filepath.Join(a, b): the non-empty elements joined by a separator, cleaned
Join(a, b) ==
  IF a = <<>> /\ b = <<>> THEN <<>>
  ELSE IF b = <<>> THEN Clean(a)
  ELSE IF a = <<>> THEN Clean(b)
  ELSE Clean(a \o <<Sep>> \o b)

\* mutant of cleanPath: the path is cleaned, a relative one is not anchored
\* at the root first
cleanPathCleanOnly(path) == IF path = <<>> THEN <<>> ELSE Clean(path)

\* cleanPath
cleanPath(path) ==
  IF path = <<>> THEN <<>>
  ELSE
    LET p1 == Clean(path)
        p2 == IF ~IsAbs(p1) THEN RelToRoot(Clean(<<Sep>> \o p1)) ELSE p1
    IN  Clean(p2)

\* handleRead: filename = filepath.Join(constants.TFTPPath, cleanPath(filename))
ResolvePath(filename) == Join(TFTPPath, cleanPath(filename))

\* ---------------------------------------------------------------------
\* TFTP read sessions
\* ---------------------------------------------------------------------

ErrOpen == "open: no such file or directory"
ErrIsDir == "read: is a directory"
ErrTimeout == "sending block: timeout"

\* the files of the TFTP root
TftpFiles == OutFiles \ {"undionly.kpxe.bin.patched"}

\* a file name as a path element
NameChars(f) ==
  CASE f = "ipxe.efi" -> <<"i", "p", "x", "e", ".", "e", "f", "i">>
    [] f = "ipxe-arm64.efi" -> <<"i", "p", "x", "e", "-", "a", "r", "m", "6", "4", ".", "e", "f", "i">>
    [] f = "snp.efi" -> <<"s", "n", "p", ".", "e", "f", "i">>
    [] f = "snp-arm64.efi" -> <<"s", "n", "p", "-", "a", "r", "m", "6", "4", ".", "e", "f", "i">>
    [] f = "undionly.kpxe" -> <<"u", "n", "d", "i", "o", "n", "l", "y", ".", "k", "p", "x", "e">>
    [] f = "undionly.kpxe.0" -> <<"u", "n", "d", "i", "o", "n", "l", "y", ".", "k", "p", "x", "e", ".", "0">>

\* the file of the TFTP root a path names, "" when it names none
FileAt(path) ==
  IF \E f \in TftpFiles : path = TFTPPath \o <<Sep>> \o NameChars(f)
    THEN CHOOSE f \in TftpFiles : path = TFTPPath \o <<Sep>> \o NameChars(f)
    ELSE ""

\* the number of reads a transfer makes of its file
FileChunks == 2

NewSession(name) ==
  [name |-> name, pc |-> "handleRead", path |-> <<>>, err |-> ErrNil, data |-> <<>>]

\* file names requested in a run of the server
RequestNames ==
  {NameChars("snp.efi"),
   <<".", ".", "/">> \o NameChars("snp.efi"),
   <<"/", "e", "t", "c", "/", "p", "a", "s", "s", "w", "d">>}

\* the paths of the requested names, resolved once and looked up afterwards
ResolvedRequests == [name \in RequestNames |-> ResolvePath(name)]
OpenPath(filename) ==
  IF filename \in RequestNames THEN ResolvedRequests[filename]
  ELSE ResolvePath(filename)

\* the serve loop receives a read request and starts its handler
TftpAccept ==
  /\ tftp.listen = "serving"
  /\ ~tftp.shut
  /\ Len(tftp.sessions) < MaxSessions
  /\ \E name \in RequestNames :
       tftp' = [tftp EXCEPT !.sessions = Append(@, NewSession(name))]
  /\ UNCHANGED <<prov, patch, peg, srv, tun, validateVars, offerVars, proxyVars, patchVars, moreVars>>

\* mutant of HandleReadOpen: the file is opened with os.Create, which
\* truncates it
HandleReadOpenCreate(i) ==
  /\ i \in 1..Len(tftp.sessions)
  /\ tftp.sessions[i].pc = "handleRead"
  /\ LET path == OpenPath(tftp.sessions[i].name)
         f    == FileAt(path)
     IN  /\ tftp' = [tftp EXCEPT !.sessions[i].path = path,
                                 !.sessions[i].pc = IF f # "" THEN "sending" ELSE "done",
                                 !.sessions[i].err = IF f # "" THEN ErrNil ELSE ErrOpen]
         /\ patch' = IF f # "" THEN [patch EXCEPT !.files[f] = "incomplete"] ELSE patch
  /\ UNCHANGED <<prov, peg, srv, tun, validateVars, offerVars, proxyVars, patchVars, moreVars>>

\* handleRead: the path is resolved and opened with os.Open (read-only); a
\* missing file fails the session, the root directory itself opens but cannot
\* be read
HandleReadOpen(i) ==
  /\ i \in 1..Len(tftp.sessions)
  /\ tftp.sessions[i].pc = "handleRead"
  /\ LET path == OpenPath(tftp.sessions[i].name)
         f    == FileAt(path)
         ok   == f # "" /\ patch.files[f] # ""
     IN  tftp' = [tftp EXCEPT
                    !.sessions[i].path = path,
                    !.sessions[i].pc = IF ok THEN "sending" ELSE "done",
                    !.sessions[i].err = IF ok THEN ErrNil
                                        ELSE IF path = TFTPPath THEN ErrIsDir
                                        ELSE ErrOpen]
  /\ UNCHANGED <<prov, patch, peg, srv, tun, validateVars, offerVars, proxyVars, patchVars, moreVars>>

\* rf.ReadFrom(file): the next part of the file is read and sent
HandleReadChunk(i) ==
  /\ i \in 1..Len(tftp.sessions)
  /\ tftp.sessions[i].pc = "sending"
  /\ Len(tftp.sessions[i].data) < FileChunks
  /\ tftp' = [tftp EXCEPT !.sessions[i].data =
                Append(@, patch.files[FileAt(tftp.sessions[i].path)])]
  /\ UNCHANGED <<prov, patch, peg, srv, tun, validateVars, offerVars, proxyVars, patchVars, moreVars>>

\* rf.ReadFrom(file) returns nil: the file was sent and acknowledged
HandleReadFinish(i) ==
  /\ i \in 1..Len(tftp.sessions)
  /\ tftp.sessions[i].pc = "sending"
  /\ Len(tftp.sessions[i].data) = FileChunks
  /\ tftp' = [tftp EXCEPT !.sessions[i].pc = "done"]
  /\ UNCHANGED <<prov, patch, peg, srv, tun, validateVars, offerVars, proxyVars, patchVars, moreVars>>

\* the client of a transfer stops acknowledging
HandleReadStall(i) ==
  /\ i \in 1..Len(tftp.sessions)
  /\ tftp.sessions[i].pc = "sending"
  /\ tftp' = [tftp EXCEPT !.sessions[i].pc = "stalled"]
  /\ UNCHANGED <<prov, patch, peg, srv, tun, validateVars, offerVars, proxyVars, patchVars, moreVars>>

\* mutant of HandleReadTimeout: the sender waits for the acknowledgement
\* without a limit
HandleReadNoTimeout(i) ==
  /\ i \in 1..Len(tftp.sessions)
  /\ tftp.sessions[i].pc = "stalled"
  /\ UNCHANGED vars

\* rf.ReadFrom(file) returns an error: the retransmissions to a stalled
\* client (srv.SetTimeout(5 * time.Second) each) ran out
HandleReadTimeout(i) ==
  /\ i \in 1..Len(tftp.sessions)
  /\ tftp.sessions[i].pc = "stalled"
  /\ tftp' = [tftp EXCEPT !.sessions[i].pc = "done", !.sessions[i].err = ErrTimeout]
  /\ UNCHANGED <<prov, patch, peg, srv, tun, validateVars, offerVars, proxyVars, patchVars, moreVars>>

\* patchBinaries has run to its end
PatchedAll ==
  [step |-> Len(PatchSteps), failed |-> FALSE,
   files |-> [f \in OutFiles |-> "patched " \o f], err |-> ErrNil, zbin |-> NoZbin]

\* tftp.Server.Run on its own: called after the patching, with a context the
\* caller may cancel
InitTftp ==
  /\ prov = NoProviderRun
  /\ patch = PatchedAll
  /\ peg = NoErrgroup
  /\ srv = NoServerRun
  /\ tun = NoTunnel
  /\ tftp = [NoTftpRun EXCEPT !.pc = "start"]
  /\ ValidateIdle
  /\ OfferIdle
  /\ ProxyIdle
  /\ PatchIdle
  /\ MoreIdle

\* the caller cancels the context handed to Server.Run
TftpCallerCancel ==
  /\ tftp.pc \notin {"idle", "returned"}
  /\ ~peg.ctx
  /\ peg' = [peg EXCEPT !.parent = TRUE, !.ctx = TRUE]
  /\ UNCHANGED <<prov, patch, srv, tun, tftp, validateVars, offerVars, proxyVars, patchVars, moreVars>>

Session(i) ==
  \/ HandleReadOpen(i)
  \/ HandleReadChunk(i)
  \/ HandleReadFinish(i)
  \/ HandleReadStall(i)
  \/ HandleReadTimeout(i)

NextTftp ==
  \/ TftpCallerCancel
  \/ TftpMkdirFail
  \/ TftpRunStart
  \/ TftpCtxDone
  \/ TftpBindFail
  \/ TftpBindOK
  \/ TftpShutdownCall
  \/ TftpShutdownReturn
  \/ TftpServeReturn
  \/ TftpRunReturn
  \/ TftpAccept
  \/ \E i \in 1..MaxSessions : Session(i)

SpecTftp == InitTftp /\ [][NextTftp]_vars

\* Scheduling: each goroutine of Run (Run itself, the one in ListenAndServe,
\* the one waiting for ctx.Done()) takes the step it can take; a bind attempt
\* ends, a transfer whose client answers goes on and the retransmission timer
\* of a stalled one runs out.
TftpFairness ==
  /\ WF_vars(TftpMkdirFail \/ TftpRunStart \/ TftpRunReturn)
  /\ WF_vars(TftpBindFail \/ TftpBindOK \/ TftpServeReturn)
  /\ WF_vars(TftpCtxDone \/ TftpShutdownCall \/ TftpShutdownReturn)
  /\ \A i \in 1..MaxSessions :
       WF_vars(HandleReadOpen(i) \/ HandleReadChunk(i) \/ HandleReadFinish(i)
                 \/ HandleReadTimeout(i))
SpecTftpFair == SpecTftp /\ TftpFairness

\* handleRead on one request, for every file name up to MaxNameLen
NameAlphabet == {Sep, ".", "a"}
Names == UNION {[1..n -> NameAlphabet] : n \in 0..MaxNameLen} \cup RequestNames
InitPath ==
  /\ prov = NoProviderRun
  /\ patch = PatchedAll
  /\ peg = NoErrgroup
  /\ srv = NoServerRun
  /\ tun = NoTunnel
  /\ \E name \in Names :
       tftp = [NoTftpRun EXCEPT !.pc = "waiting", !.listen = "serving",
                                !.stopper = "waiting",
                                !.sessions = <<NewSession(name)>>]
  /\ ValidateIdle
  /\ OfferIdle
  /\ ProxyIdle
  /\ PatchIdle
  /\ MoreIdle
NextPath == Session(1)
SpecPath == InitPath /\ [][NextPath]_vars

\* ---------------------------------------------------------------------
\* Path containment
\* ---------------------------------------------------------------------

\* p is the root directory or a path below it: the root, a separator and
\* elements none of which is empty, "." or ".."
UnderRoot(p) ==
  \/ p = TFTPPath
  \/ /\ Len(p) > Len(TFTPPath) + 1
     /\ SubSeq(p, 1, Len(TFTPPath) + 1) = TFTPPath \o <<Sep>>
     /\ LET rest == Split(SubSeq(p, Len(TFTPPath) + 2, Len(p)))
        IN  \A k \in 1..Len(rest) : rest[k] \notin {<<>>, <<".">>, <<".", ".">>}
Opened(i) == i \in 1..Len(tftp.sessions) /\ tftp.sessions[i].pc # "handleRead"

\* C16: the path handleRead opens for a requested file name is the TFTP root
\* or a path lexically below it, whatever the name.
C16_PathUnderRoot ==
  \A i \in 1..Len(tftp.sessions) : Opened(i) => UnderRoot(tftp.sessions[i].path)

\* a name that starts with "../" and names something was resolved
C16_Witness ==
  /\ Opened(1)
  /\ Len(tftp.sessions[1].name) > 3
  /\ SubSeq(tftp.sessions[1].name, 1, 3) = <<".", ".", Sep>>
  /\ tftp.sessions[1].path # TFTPPath

\* ---------------------------------------------------------------------
\* Shutdown of the DHCP proxy
\* ---------------------------------------------------------------------

\* Run returned and nothing but the shutdown happened: the server was
\* created and the socket was closed by the goroutine waiting for ctx.Done()
CleanShutdown ==
  /\ run.pc = "returned"
  /\ sock = "closed"
  /\ closer.pc = "returned"
  /\ closer.err = ErrNil
C17_SocketClosed == (run.pc = "returned" /\ sock # "none") => sock = "closed"
C17_NoFailureReported == CleanShutdown => run.err = ErrNil

\* C17: once the context of Proxy.Run is cancelled, Run eventually returns,
\* with the server socket closed and the receive loop ended; the closed-socket
\* error of this shutdown is not reported, Run returns nil when nothing else
\* failed.
C17_CancelStopsProxy ==
  /\ (ctxDone ~> run.pc = "returned")
  /\ [](run.pc = "returned" /\ sock # "none" => serve.pc = "returned")
  /\ []C17_SocketClosed
  /\ []C17_NoFailureReported

\* Run returned nil after a cancellation, with packets handled before it
C17_Witness ==
  /\ CleanShutdown
  /\ run.err = ErrNil
  /\ serve.pc = "returned"
  /\ handlers[1].pc = "done"

\* ---------------------------------------------------------------------
\* Failure of a component
\* ---------------------------------------------------------------------

\* Scheduling: every goroutine of Provider.Run and of its components takes
\* the steps it can take; a bind attempt ends, a cancelled context is seen by
\* the goroutines waiting for it, the reverse tunnel returns once its context
\* is cancelled and httpServer.Shutdown returns by its deadline.
ProviderFairness ==
  /\ WF_vars(StartComponents)
  /\ WF_vars(ProviderReturn)
  /\ \A c \in Components : WF_vars(ComponentReturn(c))
  /\ WF_vars(ServerRunStart)
  /\ WF_vars(ServerCtxDone)
  /\ WF_vars(ServerShutdown)
  /\ WF_vars(ServerListenClosed)
  /\ WF_vars(ServerRunReturn)
  /\ WF_vars(TunnelStop)
  /\ WF_vars(NewServerFail \/ NewServerOK)
  /\ WF_vars(DhcpCtxDone)
  /\ ProxyFairness
  /\ TftpFairness
SpecProviderFair == SpecProvider /\ ProviderFairness

\* the goroutine running component c returned an error
ComponentFailed(c) ==
  /\ prov.pc = "wait"
  /\ ComponentRun(c).pc = "returned"
  /\ ComponentRun(c).err # ErrNil
ComponentStopped(c) == ComponentRun(c).pc \in {"idle", "returned"}
\* the errgroup takes its error from the component whose return it records
\* first with an error, and keeps it
FirstFailureKept ==
  /\ (peg.err = ErrNil /\ peg'.err # ErrNil) =>
        \E c \in Components :
          /\ ComponentFailed(c)
          /\ c \notin peg.done
          /\ \A d \in peg.done : ComponentRun(d).err = ErrNil
          /\ peg'.err = ComponentRun(c).err
  /\ peg.err # ErrNil => peg'.err = peg.err

\* C18: when a component started by Provider.Run returns an error, the
\* context shared by the components is cancelled, every component eventually
\* returns, and Provider.Run returns "failed to run provider" wrapping the
\* error of the first component that failed.
C18_FailureStopsAll ==
  /\ \A c \in Components :
       ComponentFailed(c) ~>
         (/\ prov.pc = "returned"
          /\ prov.err # ErrNil
          /\ \A d \in Components : ComponentStopped(d))
  /\ [](peg.err # ErrNil => peg.ctx)
  /\ [](prov.pc = "returned" =>
          /\ \A d \in Components : ComponentStopped(d)
          /\ peg.err # ErrNil => prov.err = Wrap("failed to run provider", peg.err))
  /\ [][FirstFailureKept]_vars

\* Provider.Run returned the bind failure of the TFTP server after the other
\* three components, which had been serving, were stopped without an error
C18_Witness ==
  /\ prov.pc = "returned"
  /\ prov.err = Wrap("failed to run provider", ErrBindTFTP)
  /\ sock = "closed"
  /\ srv.shut
  /\ tun.pc = "returned"
  /\ \A c \in Components \ {"TFTP server"} : ComponentRun(c).err = ErrNil

\* ---------------------------------------------------------------------
\* Shutdown of the TFTP server
\* ---------------------------------------------------------------------

\* no request is accepted once Shutdown was called
NoAcceptAfterShutdown == tftp.shut => Len(tftp'.sessions) = Len(tftp.sessions)
\* Run returns only with every transfer over: sent to its end, or ended with
\* an error
TransfersOverAtReturn ==
  (tftp.pc = "returned" /\ tftp.err = ErrNil) =>
    \A i \in 1..Len(tftp.sessions) :
      /\ tftp.sessions[i].pc = "done"
      /\ \/ tftp.sessions[i].err # ErrNil
         \/ Len(tftp.sessions[i].data) = FileChunks

SessionFile(i) ==
  IF tftp.sessions[i].pc = "handleRead" THEN "" ELSE FileAt(tftp.sessions[i].path)
\* no step of Server.Run, of the serve loop or of a read session changes a file
FilesKept == patch'.files = patch.files
\* two sessions reading the same file got the same bytes, part by part, and
\* these are the bytes the patching wrote
SameBytes ==
  \A i, j \in 1..Len(tftp.sessions) :
    (SessionFile(i) # "" /\ SessionFile(i) = SessionFile(j)) =>
      /\ \A k \in 1..Len(tftp.sessions[i].data) :
           tftp.sessions[i].data[k] = PatchedAll.files[SessionFile(i)]
      /\ \A k \in 1..Len(tftp.sessions[i].data) :
           k <= Len(tftp.sessions[j].data) =>
             tftp.sessions[i].data[k] = tftp.sessions[j].data[k]

\* C20: once patchBinaries has completed, no step of the TFTP server or of
\* its read sessions modifies a served file, and read sessions of the same
\* file, however they interleave, are sent the same bytes.
C20_FilesImmutable == [][FilesKept]_vars /\ []SameBytes

\* two sessions read the same file under different names at the same time:
\* one was sent the whole file while the other is part of the way
C20_Witness ==
  /\ Len(tftp.sessions) = 2
  /\ tftp.sessions[1].name # tftp.sessions[2].name
  /\ SessionFile(1) = "snp.efi"
  /\ SessionFile(2) = "snp.efi"
  /\ tftp.sessions[1].pc = "sending"
  /\ Len(tftp.sessions[1].data) = 1
  /\ tftp.sessions[2].pc = "done"
  /\ Len(tftp.sessions[2].data) = FileChunks

\* ---------------------------------------------------------------------------
\* The embedded boot script (bootTemplate), as iPXE runs it
\* ---------------------------------------------------------------------------

\* net0 .. net(n-1) exist on the machine, n \in 0..MaxIfaces
MaxIfaces == 2

\* set attempts:int32 10
attempts == 10

\* the script after "set attempts:int32 10" and "set x:int32 0"; sweeps counts
\* the passes over the interfaces begun, tried lists the interfaces whose
\* link was waited for in the current pass
InitBoot ==
  /\ \E n \in 0..MaxIfaces :
       boot = [pc |-> "retry_loop", n |-> n, x |-> 0, idx |-> 0, sweeps |-> 0,
               tried |-> <<>>]
  /\ svc = NoCall
  /\ machines = [id \in MachineIds |-> NoMachine]
  /\ bmc = <<>>
  /\ rip = NoRoutableIPs
  /\ sl = NoSlice
  /\ ValidateIdle
  /\ OfferIdle
  /\ ProxyIdle
  /\ PatchIdle
  /\ ProviderIdle

BootUnchanged ==
  UNCHANGED <<validateVars, offerVars, proxyVars, patchVars, providerVars,
              serviceVars, rip, sl>>

\* :retry_loop   set idx:int32 0
RetryLoop ==
  /\ boot.pc = "retry_loop"
  /\ boot' = [boot EXCEPT !.pc = "loop", !.idx = 0, !.sweeps = @ + 1, !.tried = <<>>]
  /\ BootUnchanged

\* :loop   isset ${net${idx}/mac} || goto exhausted ; ifclose
Loop ==
  /\ boot.pc = "loop"
  /\ boot' = IF boot.idx < boot.n
               THEN [boot EXCEPT !.pc = "iflinkwait", !.tried = Append(@, boot.idx)]
               ELSE [boot EXCEPT !.pc = "exhausted"]
  /\ BootUnchanged

\* iflinkwait --timeout 5000 net${idx} || goto next_iface
IfLinkWait ==
  /\ boot.pc = "iflinkwait"
  /\ \E linkUp \in BOOLEAN :
       boot' = [boot EXCEPT !.pc = IF linkUp THEN "dhcp" ELSE "next_iface"]
  /\ BootUnchanged

\* dhcp net${idx} || goto next_iface ; goto boot
Dhcp ==
  /\ boot.pc = "dhcp"
  /\ \E leased \in BOOLEAN :
       boot' = [boot EXCEPT !.pc = IF leased THEN "boot" ELSE "next_iface"]
  /\ BootUnchanged

\* a variant in which the next interface tried is not the following one
NextIfaceSkip ==
  /\ boot.pc = "next_iface"
  /\ boot' = [boot EXCEPT !.pc = "loop", !.idx = @ + 2]
  /\ BootUnchanged

\* :next_iface   inc idx && goto loop
NextIface ==
  /\ boot.pc = "next_iface"
  /\ boot' = [boot EXCEPT !.pc = "loop", !.idx = @ + 1]
  /\ BootUnchanged

\* :boot   route ; chain --replace http://... || goto next_iface
\* (a chain that succeeds replaces the script: it never returns)
Chain ==
  /\ boot.pc = "boot"
  /\ \E loaded \in BOOLEAN :
       boot' = [boot EXCEPT !.pc = IF loaded THEN "chained" ELSE "next_iface"]
  /\ BootUnchanged

\* :exhausted   iseq ${x} ${attempts} && goto fail ||
Exhausted ==
  /\ boot.pc = "exhausted"
  /\ boot' = [boot EXCEPT !.pc = IF boot.x = attempts THEN "fail" ELSE "retry"]
  /\ BootUnchanged

\* inc x ; goto retry_loop
IncX ==
  /\ boot.pc = "retry"
  /\ boot' = [boot EXCEPT !.pc = "retry_loop", !.x = @ + 1]
  /\ BootUnchanged

\* :fail   sleep 5 ; reboot
Fail ==
  /\ boot.pc = "fail"
  /\ boot' = [boot EXCEPT !.pc = "rebooted"]
  /\ BootUnchanged

NextBoot ==
  \/ RetryLoop
  \/ Loop
  \/ IfLinkWait
  \/ Dhcp
  \/ NextIface
  \/ Chain
  \/ Exhausted
  \/ IncX
  \/ Fail

SpecBoot == InitBoot /\ [][NextBoot]_vars

\* iPXE runs the script's next command whenever there is one
SpecBootFair == SpecBoot /\ WF_vars(NextBoot)

\* C21: when no interface ever chain-loads, at most 10 full sweeps over the
\* interfaces have been executed when the script reaches the reboot
C21_Original ==
  boot.pc = "rebooted" => boot.sweeps <= attempts

\* what the script does: the reboot is reached after attempts + 1 sweeps (x is
\* compared with attempts after a sweep and incremented only afterwards)
C21_SweepsAtReboot ==
  boot.pc = "rebooted" => boot.sweeps = attempts + 1

C21_Witness ==
  /\ boot.pc = "rebooted"
  /\ boot.n = MaxIfaces
  /\ boot.x = attempts

\* the interfaces tried in the current sweep are 0, 1, 2, ... in this order,
\* each once
TriedInOrder ==
  \A i \in 1..Len(boot.tried) : boot.tried[i] = i - 1

\* a failure on interface i leads to i + 1; the sweep ends at the first index
\* that has no interface
SweepOrdered ==
  /\ TriedInOrder
  /\ boot.pc \in {"iflinkwait", "dhcp", "boot", "next_iface", "chained"} =>
       /\ Len(boot.tried) = boot.idx + 1
       /\ boot.idx < boot.n
  /\ boot.pc = "loop" => Len(boot.tried) = boot.idx
  /\ boot.pc \in {"exhausted", "retry", "fail", "rebooted"} =>
       /\ boot.idx = boot.n
       /\ Len(boot.tried) = boot.n

\* C22: every run of the script ends in a successful chain-load or in the
\* reboot; within a sweep idx only increases, the interfaces are tried once
\* each in increasing order, and the sweep ends at the first missing index
C22_Terminates ==
  /\ []SweepOrdered
  /\ [][boot.sweeps' = boot.sweeps => boot.idx' >= boot.idx]_vars
  /\ <>(boot.pc \in {"chained", "rebooted"})

C22_Witness ==
  /\ boot.pc = "chained"
  /\ boot.sweeps = 2
  /\ boot.tried = <<0, 1>>

\* ---------------------------------------------------------------------------
\* ProviderServiceServer (ProvisionMachine, DeprovisionMachine) and the
\* persisted resources.Machine (GetMachine, SaveMachine, RemoveMachine)
\* ---------------------------------------------------------------------------

\* handler calls made one after the other
MaxCalls == 2

\* writes to the persistent state by its other clients
MaxOtherWrites == 2

ipmiUsername == "talos-agent"

ErrSetCredentials == "agent: set IPMI credentials failed"
ErrGetIPMIInfo == "agent: get IPMI info failed"
ErrState == "state: request failed"
ErrNotFound == "state: resource not found"
ErrConflict == "state: resource already exists"
ErrNewClient == "ipmi: new client failed"
ErrControl == "ipmi: chassis control failed"

\* what the agent of a machine answers
AgentPasswords == {"pw1", "pw2"}
AgentIPs == {"10.0.0.5"}
\* 623 and 2^32 + 623
AgentPorts == {<<623, 0, 0, 0>>, <<623, 0, 1, 0>>}

\* uint32(ipmiPort): the low 32 bits
Uint32(n) == SubSeq(n, 1, 2)

\* int(machine.TypedSpec().Value.IpmiPort)
IntOfUint32(u) == u \o <<0, 0>>

\* a variant that stores the user name in the password field
machineSpecUsername(ipmiIP, ipmiPort, password) ==
  [exists |-> TRUE, ip |-> ipmiIP, port |-> Uint32(ipmiPort), password |-> ipmiUsername]

\* machineSpec := &specs.MachineSpec{IpmiIp, IpmiPort: uint32(ipmiPort), IpmiPassword}
machineSpec(ipmiIP, ipmiPort, password) ==
  [exists |-> TRUE, ip |-> ipmiIP, port |-> Uint32(ipmiPort), password |-> password]

\* the specs other clients of the state write
OtherSpecs == {machineSpec("10.0.0.9", <<623, 0, 0, 0>>, "old")}

\* withClient: the connection is built from the machine's spec; NewClient may
\* fail (nothing is sent then), else the chassis-control command is sent and
\* may fail. outcome \in {"newclient", "control", "ok"}
Connection(machine) ==
  [Hostname |-> machine.ip, Port |-> IntOfUint32(machine.port), Username |-> ipmiUsername,
   Password |-> machine.password, Interface |-> "lanplus"]

withClient(machine, command, outcome) ==
  [err |-> CASE outcome = "newclient" -> ErrNewClient
             [] outcome = "control" -> ErrControl
             [] OTHER -> ErrNil,
   sent |-> IF outcome = "newclient" THEN <<>>
            ELSE <<[conn |-> Connection(machine), command |-> command,
                    call |-> svc.calls, ok |-> outcome = "ok"]>>]

ClientOutcomes == {"newclient", "control", "ok"}

InitService ==
  /\ svc = NoCall
  /\ machines \in [MachineIds -> {NoMachine} \cup OtherSpecs]
  /\ bmc = <<>>
  /\ boot = NoBoot
  /\ rip = NoRoutableIPs
  /\ sl = NoSlice
  /\ ValidateIdle
  /\ OfferIdle
  /\ ProxyIdle
  /\ PatchIdle
  /\ ProviderIdle

ServiceUnchanged ==
  UNCHANGED <<validateVars, offerVars, proxyVars, patchVars, providerVars,
              bootVars, rip, sl>>

\* ProvisionMachine is called: password, err := SetIPMICredentials(ctx, id, ipmiUsername)
SetIPMICredentials ==
  /\ svc.pc \in {"idle", "returned"}
  /\ svc.calls < MaxCalls
  /\ \E id \in MachineIds, failed \in BOOLEAN, password \in AgentPasswords :
       LET call == [NoCall EXCEPT !.op = "provision", !.id = id,
                                  !.calls = svc.calls + 1,
                                  !.steps = <<"SetIPMICredentials">>]
       IN  svc' = IF failed
                    THEN [call EXCEPT !.pc = "returned", !.err = ErrSetCredentials]
                    ELSE [call EXCEPT !.pc = "GetIPMIInfo", !.password = password,
                                      !.ok = 1]
  /\ UNCHANGED <<machines, bmc>>
  /\ ServiceUnchanged

\* ipmiIP, ipmiPort, err := GetIPMIInfo(ctx, id)
GetIPMIInfo ==
  /\ svc.pc = "GetIPMIInfo"
  /\ \E failed \in BOOLEAN, ipmiIP \in AgentIPs, ipmiPort \in AgentPorts :
       LET s == [svc EXCEPT !.steps = Append(@, "GetIPMIInfo")]
       IN  svc' = IF failed
                    THEN [s EXCEPT !.pc = "returned", !.err = ErrGetIPMIInfo]
                    ELSE [s EXCEPT !.pc = "SaveMachine", !.ip = ipmiIP,
                                   !.port = ipmiPort, !.ok = @ + 1]
  /\ UNCHANGED <<machines, bmc>>
  /\ ServiceUnchanged

\* a variant without the update: the conflict of st.Create is returned
SaveMachineCreateOnly ==
  /\ svc.pc = "SaveMachine"
  /\ \E failed \in BOOLEAN :
       LET spec == machineSpec(svc.ip, svc.port, svc.password)
           s == [svc EXCEPT !.steps = Append(@, "SaveMachine")]
       IN  IF failed
             THEN /\ svc' = [s EXCEPT !.pc = "returned", !.err = ErrState]
                  /\ UNCHANGED machines
             ELSE IF machines[svc.id].exists
                    THEN /\ svc' = [s EXCEPT !.pc = "returned", !.err = ErrConflict]
                         /\ UNCHANGED machines
                    ELSE /\ svc' = [s EXCEPT !.pc = "withClient", !.machine = spec,
                                             !.ok = @ + 1, !.via = "create"]
                         /\ machines' = [machines EXCEPT ![svc.id] = spec]
  /\ UNCHANGED bmc
  /\ ServiceUnchanged

\* SaveMachine: st.Create(ctx, machine); a conflict leads to the update, any
\* other error is returned
SaveMachine ==
  /\ svc.pc = "SaveMachine"
  /\ \E failed \in BOOLEAN :
       LET spec == machineSpec(svc.ip, svc.port, svc.password)
           s == [svc EXCEPT !.steps = Append(@, "SaveMachine")]
       IN  IF failed
             THEN /\ svc' = [s EXCEPT !.pc = "returned", !.err = ErrState]
                  /\ UNCHANGED machines
             ELSE IF machines[svc.id].exists
                    THEN /\ svc' = [svc EXCEPT !.pc = "UpdateWithConflicts"]
                         /\ UNCHANGED machines
                    ELSE /\ svc' = [s EXCEPT !.pc = "withClient", !.machine = spec,
                                             !.ok = @ + 1, !.via = "create"]
                         /\ machines' = [machines EXCEPT ![svc.id] = spec]
  /\ UNCHANGED bmc
  /\ ServiceUnchanged

\* SaveMachine: safe.StateUpdateWithConflicts(..., res.TypedSpec().Value = spec);
\* the resource may have been destroyed since the conflict
UpdateWithConflicts ==
  /\ svc.pc = "UpdateWithConflicts"
  /\ \E failed \in BOOLEAN :
       LET spec == machineSpec(svc.ip, svc.port, svc.password)
           s == [svc EXCEPT !.steps = Append(@, "SaveMachine")]
       IN  IF failed
             THEN /\ svc' = [s EXCEPT !.pc = "returned", !.err = ErrState]
                  /\ UNCHANGED machines
             ELSE IF ~machines[svc.id].exists
                    THEN /\ svc' = [s EXCEPT !.pc = "returned", !.err = ErrNotFound]
                         /\ UNCHANGED machines
                    ELSE /\ svc' = [s EXCEPT !.pc = "withClient", !.machine = spec,
                                             !.ok = @ + 1, !.via = "update"]
                         /\ machines' = [machines EXCEPT ![svc.id] = spec]
  /\ UNCHANGED bmc
  /\ ServiceUnchanged

\* ProvisionMachine: withClient(machine, client.Control(ControlPowerUp)), return
PowerUp ==
  /\ svc.op = "provision"
  /\ svc.pc = "withClient"
  /\ \E outcome \in ClientOutcomes :
       LET r == withClient(svc.machine, "ControlPowerUp", outcome)
       IN  /\ bmc' = bmc \o r.sent
           /\ svc' = [svc EXCEPT !.pc = "returned", !.err = r.err,
                                 !.steps = Append(@, "ControlPowerUp"),
                                 !.ok = IF r.err = ErrNil THEN @ + 1 ELSE @]
  /\ UNCHANGED machines
  /\ ServiceUnchanged

\* DeprovisionMachine is called: machine, err := GetMachine(ctx, id)
GetMachine ==
  /\ svc.pc \in {"idle", "returned"}
  /\ svc.calls < MaxCalls
  /\ \E id \in MachineIds, failed \in BOOLEAN :
       LET call == [NoCall EXCEPT !.op = "deprovision", !.id = id,
                                  !.calls = svc.calls + 1,
                                  !.steps = <<"GetMachine">>]
       IN  svc' = IF failed
                    THEN [call EXCEPT !.pc = "returned", !.err = ErrState]
                    ELSE IF ~machines[id].exists
                           THEN [call EXCEPT !.pc = "returned", !.err = ErrNotFound]
                           ELSE [call EXCEPT !.pc = "RemoveMachine",
                                             !.machine = machines[id], !.ok = 1]
  /\ UNCHANGED <<machines, bmc>>
  /\ ServiceUnchanged

\* st.Destroy(ctx, resources.NewMachine(id).Metadata())
Destroy(id, failed) ==
  IF failed THEN ErrState
  ELSE IF ~machines[id].exists THEN ErrNotFound
  ELSE ErrNil

\* a variant that goes on to the power-cycle whatever st.Destroy returned
RemoveMachineIgnoreError ==
  /\ svc.pc = "RemoveMachine"
  /\ \E failed \in BOOLEAN :
       LET err == Destroy(svc.id, failed)
           s == [svc EXCEPT !.steps = Append(@, "RemoveMachine")]
       IN  /\ svc' = [s EXCEPT !.pc = "withClient",
                               !.ok = IF err \in {ErrNil, ErrNotFound} THEN @ + 1 ELSE @,
                               !.via = IF err = ErrNotFound THEN "not found" ELSE "destroy"]
           /\ machines' = IF err = ErrNil THEN [machines EXCEPT ![svc.id] = NoMachine]
                          ELSE machines
  /\ UNCHANGED bmc
  /\ ServiceUnchanged

\* RemoveMachine: st.Destroy; a not-found error counts as success
RemoveMachine ==
  /\ svc.pc = "RemoveMachine"
  /\ \E failed \in BOOLEAN :
       LET err == Destroy(svc.id, failed)
           s == [svc EXCEPT !.steps = Append(@, "RemoveMachine")]
       IN  IF err \notin {ErrNil, ErrNotFound}
             THEN /\ svc' = [s EXCEPT !.pc = "returned", !.err = err]
                  /\ UNCHANGED machines
             ELSE /\ svc' = [s EXCEPT !.pc = "withClient", !.ok = @ + 1,
                                     !.via = IF err = ErrNotFound THEN "not found"
                                             ELSE "destroy"]
                  /\ machines' = [machines EXCEPT ![svc.id] = NoMachine]
  /\ UNCHANGED bmc
  /\ ServiceUnchanged

\* DeprovisionMachine: withClient(machine, client.Control(ControlPowerCycle)), return
PowerCycle ==
  /\ svc.op = "deprovision"
  /\ svc.pc = "withClient"
  /\ \E outcome \in ClientOutcomes :
       LET r == withClient(svc.machine, "ControlPowerCycle", outcome)
       IN  /\ bmc' = bmc \o r.sent
           /\ svc' = [svc EXCEPT !.pc = "returned", !.err = r.err,
                                 !.steps = Append(@, "ControlPowerCycle"),
                                 !.ok = IF r.err = ErrNil THEN @ + 1 ELSE @]
  /\ UNCHANGED machines
  /\ ServiceUnchanged

\* another client of the persistent state creates, updates or destroys a
\* machine while a handler runs (Omni, or a concurrent call of a handler)
OtherClient ==
  /\ svc.pc \notin {"idle", "returned"}
  /\ svc.others < MaxOtherWrites
  /\ \E id \in MachineIds, spec \in {NoMachine} \cup OtherSpecs :
       /\ machines[id] # spec
       /\ machines' = [machines EXCEPT ![id] = spec]
  /\ svc' = [svc EXCEPT !.others = @ + 1]
  /\ UNCHANGED bmc
  /\ ServiceUnchanged

NextService ==
  \/ SetIPMICredentials
  \/ GetIPMIInfo
  \/ SaveMachine
  \/ UpdateWithConflicts
  \/ PowerUp
  \/ GetMachine
  \/ RemoveMachine
  \/ PowerCycle
  \/ OtherClient

SpecService == InitService /\ [][NextService]_vars

IsPrefix(s, t) ==
  /\ Len(s) <= Len(t)
  /\ \A i \in 1..Len(s) : s[i] = t[i]

\* a step of the handler, as opposed to a write by another client
HandlerStep == svc' # svc /\ svc'.others = svc.others

\* the chassis-control commands sent by the current call
CallCommands ==
  LET OfCall(c) == c.call = svc.calls
  IN  SelectSeq(bmc, OfCall)

\* every step before the last one succeeded, and the call returns nil exactly
\* when the last one did too
StopsAtFirstFailure ==
  /\ svc.pc # "returned" => svc.ok = Len(svc.steps)
  /\ svc.pc = "returned" =>
       /\ svc.ok \in {Len(svc.steps), Len(svc.steps) - 1}
       /\ svc.err = ErrNil <=> svc.ok = Len(svc.steps)

DeprovisionOrder == <<"GetMachine", "RemoveMachine", "ControlPowerCycle">>

DeprovisionInOrder ==
  svc.op = "deprovision" =>
    /\ IsPrefix(svc.steps, DeprovisionOrder)
    /\ StopsAtFirstFailure
    /\ CallCommands # <<>> =>
         /\ svc.steps = DeprovisionOrder
         /\ svc.ok >= 2
         /\ Len(CallCommands) = 1
         /\ CallCommands[1].command = "ControlPowerCycle"
         /\ CallCommands[1].conn = Connection(svc.machine)
         /\ svc.machine.exists
    /\ (svc.pc = "returned" /\ svc.ok < 2) =>
         /\ CallCommands = <<>>
         /\ svc.err # ErrNil
    /\ (svc.pc = "returned" /\ svc.ok = 2) =>
         /\ svc.err \in {ErrNewClient, ErrControl}
         /\ svc.others = 0 => ~machines[svc.id].exists

\* C23: DeprovisionMachine reads the machine, removes the resource, then
\* power-cycles: the power-cycle is sent only after a successful removal, with
\* the connection data read before it; a failed read or removal sends none;
\* a failed power-cycle returns an error and writes nothing back
C23_DeprovisionOrder ==
  /\ []DeprovisionInOrder
  /\ [][(svc'.op = "deprovision" /\ bmc' # bmc) =>
          /\ svc.pc = "withClient"
          /\ svc.ok = 2
          /\ svc.via \in {"destroy", "not found"}]_vars
  /\ [][(svc.op = "deprovision" /\ svc.pc = "withClient" /\ HandlerStep) =>
          machines' = machines]_vars

C23_Witness ==
  /\ svc.op = "deprovision"
  /\ svc.pc = "returned"
  /\ svc.err = ErrControl
  /\ Len(CallCommands) = 1
  /\ CallCommands[1].conn.Hostname = "10.0.0.9"
  /\ ~machines[svc.id].exists

ProvisionOrder == <<"SetIPMICredentials", "GetIPMIInfo", "SaveMachine", "ControlPowerUp">>

ProvisionInOrder ==
  svc.op = "provision" =>
    /\ IsPrefix(svc.steps, ProvisionOrder)
    /\ StopsAtFirstFailure
    /\ (svc.pc = "returned" /\ svc.err = ErrNil) =>
         /\ svc.steps = ProvisionOrder
         /\ svc.ok = 4
    /\ CallCommands # <<>> =>
         /\ svc.steps = ProvisionOrder
         /\ svc.ok >= 3
         /\ Len(CallCommands) = 1
         /\ CallCommands[1].command = "ControlPowerUp"

\* C24: ProvisionMachine sets the credentials, gets the IPMI info, saves the
\* resource, then powers up, and stops at the first failure; what it persists
\* has the password and the address the agent returned; the power-up is sent
\* only after the save; success needs all four steps
C24_ProvisionOrder ==
  /\ []ProvisionInOrder
  /\ [][(svc'.op = "provision" /\ HandlerStep /\ machines' # machines) =>
          /\ svc.password \in AgentPasswords
          /\ svc.ip \in AgentIPs
          /\ machines' = [machines EXCEPT ![svc.id] =
                            [exists |-> TRUE, ip |-> svc.ip, port |-> <<623, 0>>,
                             password |-> svc.password]]]_vars
  /\ [][(svc'.op = "provision" /\ bmc' # bmc) =>
          /\ svc.pc = "withClient"
          /\ svc.ok = 3
          /\ svc.via \in {"create", "update"}]_vars

C24_Witness ==
  /\ svc.op = "provision"
  /\ svc.pc = "returned"
  /\ svc.err = ErrNil
  /\ svc.port = <<623, 0, 1, 0>>
  /\ machines[svc.id] = [exists |-> TRUE, ip |-> "10.0.0.5", port |-> <<623, 0>>,
                         password |-> "pw2"]
  /\ CallCommands[1].conn.Port = <<623, 0, 0, 0>>

\* C28: SaveMachine creates the resource when the id has none and updates it
\* when the creation conflicts; when it succeeds the persisted spec is the
\* given one; an existing resource is no reason to fail; RemoveMachine of an
\* id without resource succeeds
C28_Upsert ==
  /\ [][(svc.pc \in {"SaveMachine", "UpdateWithConflicts"} /\ svc'.pc = "withClient") =>
          /\ machines'[svc.id] = machineSpec(svc.ip, svc.port, svc.password)
          /\ svc'.machine = machines'[svc.id]
          /\ machines[svc.id].exists <=> svc.pc = "UpdateWithConflicts"]_vars
  /\ [][(svc.pc = "SaveMachine" /\ HandlerStep /\ machines[svc.id].exists) =>
          \/ svc'.pc = "UpdateWithConflicts"
          \/ svc'.err = ErrState]_vars
  /\ [][(svc.pc = "UpdateWithConflicts" /\ HandlerStep /\ machines[svc.id].exists) =>
          \/ svc'.pc = "withClient"
          \/ svc'.err = ErrState]_vars
  /\ [](svc.op = "provision" => svc.err # ErrConflict)
  /\ [][(svc.pc = "RemoveMachine" /\ HandlerStep /\ ~machines[svc.id].exists) =>
          \/ svc'.pc = "withClient" /\ svc'.err = ErrNil /\ machines' = machines
          \/ svc'.err = ErrState]_vars

C28_Witness ==
  /\ svc.op = "provision"
  /\ svc.pc = "withClient"
  /\ svc.via = "update"
  /\ svc.others > 0
  /\ machines[svc.id] = machineSpec("10.0.0.5", <<623, 0, 1, 0>>, "pw1")

\* ---------------------------------------------------------------------------
\* validateDHCP's result as handlePacket hands it to offerDHCP
\* ---------------------------------------------------------------------------

\* offerDHCP(m, apiHost, apiPort, fwtype) as handlePacket calls it after
\* validateDHCP returned no error
OfferAfterValidate ==
  OfferDHCP(m, "10.0.0.1", 50042, vret.fwtype, ErrNil)

\* C25: validateDHCP returns Unsupported (0) with every error and one of the
\* six supported variants with none, so offerDHCP called by handlePacket
\* never takes its unsupported-firmware branch; a packet with no recognized
\* architecture and a malformed GUID gets the unsupported-architecture error
C25_FirmwareXorError ==
  Called =>
    /\ vret.err # ErrNil => vret.fwtype = FirmwareUnsupported
    /\ vret.err = ErrNil =>
         /\ vret.fwtype \in SupportedFirmware
         /\ OfferAfterValidate.err = ErrNil
    /\ (~HasRecognized(ClientArch(m)) /\ ~GuidValid(GetOneOption(m, "opt97"))) =>
         vret.err = ErrUnsupportedArch

C25_Witness ==
  /\ Called
  /\ ClientArch(m) = <<"EFI_ITANIUM">>
  /\ GetOneOption(m, "opt97") = MkGuid(17, 1)
  /\ vret = [fwtype |-> FirmwareUnsupported, err |-> ErrUnsupportedArch]

\* ---------------------------------------------------------------------------
\* The placeholder window and the markers of a patched image
\* ---------------------------------------------------------------------------

Markers == {placeholderStart, placeholderEnd}

\* the window patchScript overwrote: from the first start marker to the end
\* of the first end marker, the script at its beginning
WindowOverwritten ==
  LET ws == FirstOccurrence(psrc.data, placeholderStart)
  IN  /\ HasWindow
      /\ WindowStart = ws
      /\ WindowEnd = ws + WindowLength
      /\ Len(pscript) <= WindowLength
      /\ SubSeq(pdst.data, ws + 1, ws + Len(pscript)) = pscript
      /\ \A i \in (ws + Len(pscript) + 1)..(ws + WindowLength) : pdst.data[i] = Newline

\* C26 as stated: the window runs from the first start marker through the
\* first end marker, the script starts where the start marker began, and the
\* patched image holds no marker that the script does not contain
C26_Original ==
  PatchSucceeded =>
    /\ WindowOverwritten
    /\ \A mk \in Markers : Contains(pdst.data, mk) => Contains(pscript, mk)

\* C26, amended: the window and the script offset are as stated; a marker
\* occurs in the patched image only inside the script, or outside the window
\* where the source has it too, or across a window boundary; fed back as a
\* source, the patched image is rejected exactly when it holds no start marker
C26_WindowAndMarkers ==
  PatchSucceeded =>
    /\ WindowOverwritten
    /\ \A mk \in Markers : \A i \in 0..Len(pdst.data) :
         Occurs(pdst.data, mk, i) =>
           \/ /\ i >= WindowStart
              /\ i + Len(mk) <= WindowStart + Len(pscript)
              /\ Occurs(pscript, mk, i - WindowStart)
           \/ /\ i + Len(mk) <= WindowStart \/ i >= WindowEnd
              /\ Occurs(psrc.data, mk, i)
           \/ i < WindowStart /\ WindowStart < i + Len(mk)
           \/ i < WindowEnd /\ WindowEnd < i + Len(mk)
    /\ PatchScript(pdst, NoFile, pscript, "ok").err = ErrStartNotFound
         <=> ~Contains(pdst.data, placeholderStart)

\* a source with a second end marker after the window, patched with a script
\* without markers: the patched image still holds an end marker
C26_Witness ==
  /\ PatchSucceeded
  /\ \A mk \in Markers : ~Contains(pscript, mk)
  /\ Len(pscript) > 0
  /\ Contains(pdst.data, placeholderEnd)
  /\ ~Contains(pdst.data, placeholderStart)

\* ---------------------------------------------------------------------------
\* The order of patchBinaries' steps
\* ---------------------------------------------------------------------------

\* the seven files in the order in which they are to be written
PatchOrder ==
  <<"ipxe.efi", "ipxe-arm64.efi", "snp.efi", "snp-arm64.efi",
    "undionly.kpxe.bin.patched", "undionly.kpxe", "undionly.kpxe.0">>

Written(f) == patch.files[f] # ""
WrittenWhole(f) == patch.files[f] = "patched " \o f

\* the file a step that ran read was written whole by an earlier step, when
\* it is a file patchBinaries writes
ReadsPatchedRaw ==
  \A i \in 1..Len(PatchSteps) :
    (PatchSteps[i].kind = "compress" /\ Written(PatchSteps[i].out)) =>
      /\ PatchSteps[i].src = "amd64/kpxe/undionly.kpxe.bin.patched"
      /\ WrittenWhole("undionly.kpxe.bin.patched")

\* C27: patchBinaries writes ipxe.efi, ipxe-arm64.efi, snp.efi,
\* snp-arm64.efi, the patched raw legacy image, undionly.kpxe and
\* undionly.kpxe.0 in this order and stops at the first failure: a file is
\* touched only when every earlier one was written whole, the compressor
\* runs only after the raw image was patched and reads the patched file,
\* and patchBinaries returns nil only when all seven were written
C27_FixedOrder ==
  /\ [](\A k \in 1..Len(PatchOrder) :
          Written(PatchOrder[k]) => \A j \in 1..(k - 1) : WrittenWhole(PatchOrder[j]))
  /\ []ReadsPatchedRaw
  /\ [](patch.failed =>
          /\ prov.pc = "returned"
          /\ prov.err # ErrNil
          /\ \E k \in 1..Len(PatchOrder) : ~WrittenWhole(PatchOrder[k]))
  /\ [][patch.failed => patch' = patch]_vars
  /\ [](prov.pc \notin {"idle", "start", "ensureStatus", "newHandler", "returned"} =>
          /\ ~patch.failed
          /\ \A k \in 1..Len(PatchOrder) : WrittenWhole(PatchOrder[k]))

\* the second compression failed after the first one succeeded
C27_Witness ==
  /\ patch.failed
  /\ WrittenWhole("undionly.kpxe")
  /\ patch.files["undionly.kpxe.0"] = "incomplete"
  /\ FailedStep.out = "undionly.kpxe.0"

\* ---------------------------------------------------------------------------
\* RoutableIPs, isRoutableIP and the advertised host run() derives from them
\* ---------------------------------------------------------------------------

\* addresses net.InterfaceAddrs returns in one call
MaxAddrs == 2

\* a net.IP is its bytes: 4 of them, or 16
V4(a, b, c, d) == <<a, b, c, d>>
\* net.IPv4(a, b, c, d): the 16-byte form of an IPv4 address
IPv4(a, b, c, d) == <<0, 0, 0, 0, 0, 0, 0, 0, 0, 0, 255, 255, a, b, c, d>>
V6(hi, hi2, lo) == <<hi, hi2, 0, 0, 0, 0, 0, 0, 0, 0, 0, 0, 0, 0, 0, lo>>

\* ip.To4(): the 4-byte form, <<>> (nil) when ip is no IPv4 address
To4(ip) ==
  IF Len(ip) = 4 THEN ip
  ELSE IF /\ Len(ip) = 16
          /\ \A i \in 1..10 : ip[i] = 0
          /\ ip[11] = 255
          /\ ip[12] = 255
         THEN SubSeq(ip, 13, 16)
         ELSE <<>>

IsUnspecified(ip) == To4(ip) = <<0, 0, 0, 0>> \/ ip = V6(0, 0, 0)

IsLoopback(ip) ==
  IF To4(ip) # <<>> THEN To4(ip)[1] = 127 ELSE ip = V6(0, 0, 1)

\* ip4[0]&0xf0 == 0xe0, or ip[0] == 0xff
IsMulticast(ip) ==
  IF To4(ip) # <<>> THEN To4(ip)[1] \div 16 = 14
  ELSE Len(ip) = 16 /\ ip[1] = 255

\* 169.254.0.0/16, or fe80::/10
IsLinkLocalUnicast(ip) ==
  IF To4(ip) # <<>> THEN To4(ip)[1] = 169 /\ To4(ip)[2] = 254
  ELSE Len(ip) = 16 /\ ip[1] = 254 /\ ip[2] \div 64 = 2

\* 224.0.0.0/24, or ff02::/16 (ip[1]&0x0f == 0x02)
IsLinkLocalMulticast(ip) ==
  IF To4(ip) # <<>> THEN To4(ip)[1] = 224 /\ To4(ip)[2] = 0 /\ To4(ip)[3] = 0
  ELSE Len(ip) = 16 /\ ip[1] = 255 /\ ip[2] % 16 = 2

\* ip.String(): dotted decimal for an IPv4 address in either form, the IPv6
\* text otherwise
IPText(ip) ==
  LET ip4 == To4(ip)
  IN  IF ip4 # <<>>
        THEN Itoa(ip4[1]) \o "." \o Itoa(ip4[2]) \o "." \o Itoa(ip4[3]) \o "."
               \o Itoa(ip4[4])
        ELSE CASE ip = V6(0, 0, 0) -> "::"
               [] ip = V6(0, 0, 1) -> "::1"
               [] ip = V6(254, 128, 1) -> "fe80::1"
               [] ip = V6(255, 2, 1) -> "ff02::1"
               [] ip = V6(32, 1, 1) -> "2001::1"
               [] OTHER -> "?"

\* isReservedIPv4 := func(ip net.IP) bool { return ip[0] >= 240 }
isReservedIPv4(ip) == ip[1] >= 240

isRoutableIP(ip) ==
  IF \/ IsLoopback(ip)
     \/ IsLinkLocalUnicast(ip)
     \/ IsLinkLocalMulticast(ip)
     \/ IsMulticast(ip)
     \/ IsUnspecified(ip)
    THEN FALSE
  ELSE IF To4(ip) # <<>> THEN ~isReservedIPv4(ip)
  ELSE TRUE

\* the loop of RoutableIPs over addresses[i..]: addresses that are no
\* *net.IPNet are skipped
RECURSIVE RoutableIPs(_, _)
RoutableIPs(addresses, i) ==
  IF i > Len(addresses) THEN <<>>
  ELSE IF addresses[i].ipnet /\ isRoutableIP(addresses[i].ip)
         THEN <<IPText(addresses[i].ip)>> \o RoutableIPs(addresses, i + 1)
         ELSE RoutableIPs(addresses, i + 1)

ErrInterfaces == "failed to get routable IPs: failed to get interfaces"
ErrNotOneIP == "expected exactly one routable IP"

\* the addresses of the host's interfaces, IPv4 ones in both forms
HostIPv4s ==
  {<<0, 0, 0, 0>>, <<10, 0, 0, 1>>, <<127, 0, 0, 1>>, <<169, 254, 0, 1>>,
   <<224, 0, 0, 1>>, <<239, 1, 1, 1>>, <<240, 0, 0, 1>>, <<255, 255, 255, 255>>}
HostIPs ==
  HostIPv4s \cup {IPv4(b[1], b[2], b[3], b[4]) : b \in HostIPv4s}
    \cup {V6(0, 0, 0), V6(0, 0, 1), V6(254, 128, 1), V6(255, 2, 1), V6(32, 1, 1)}
HostAddrs ==
  {[ipnet |-> TRUE, ip |-> ip] : ip \in HostIPs}
    \cup {[ipnet |-> FALSE, ip |-> <<10, 0, 0, 1>>]}

InitIP ==
  /\ \E k \in 0..MaxAddrs : \E a \in [1..k -> HostAddrs] :
       rip = [NoRoutableIPs EXCEPT !.addrs = a]
  /\ boot = NoBoot
  /\ svc = NoCall
  /\ machines = [id \in MachineIds |-> NoMachine]
  /\ bmc = <<>>
  /\ sl = NoSlice
  /\ ValidateIdle
  /\ OfferIdle
  /\ ProxyIdle
  /\ PatchIdle
  /\ ProviderIdle

\* run() with no --api-host: RoutableIPs(), then exactly one address is
\* required and becomes the advertised host
RunRoutableIPs ==
  /\ ~rip.called
  /\ \E failed \in BOOLEAN :
       LET out == IF failed THEN <<>> ELSE RoutableIPs(rip.addrs, 1)
       IN  rip' = [rip EXCEPT !.called = TRUE,
                              !.out = out,
                              !.err = IF failed THEN ErrInterfaces
                                      ELSE IF Len(out) # 1 THEN ErrNotOneIP
                                      ELSE ErrNil,
                              !.apiHost = IF ~failed /\ Len(out) = 1 THEN out[1] ELSE ""]
  /\ UNCHANGED <<validateVars, offerVars, proxyVars, patchVars, providerVars,
                 bootVars, serviceVars, sl>>

NextIP == RunRoutableIPs

SpecIP == InitIP /\ [][NextIP]_vars

\* the first octet of an IPv4 address held in either form
FirstOctet(ip) == IF Len(ip) = 4 THEN ip[1] ELSE ip[13]
IsIPv4Address(ip) == To4(ip) # <<>>
ReservedIPv4(ip) == IsIPv4Address(ip) /\ FirstOctet(ip) >= 240

Listed(ip) == \E i \in 1..Len(rip.out) : rip.out[i] = IPText(ip)

\* C29: isRoutableIP is false for every IPv4 address with a first octet of
\* 240 or more, in the 4-byte and in the 16-byte form, and for loopback,
\* link-local, multicast and unspecified addresses; RoutableIPs lists none
C29_Original ==
  rip.called =>
    \A i \in 1..Len(rip.addrs) :
      LET ip == rip.addrs[i].ip
      IN  (\/ ReservedIPv4(ip)
           \/ IsLoopback(ip) \/ IsLinkLocalUnicast(ip) \/ IsLinkLocalMulticast(ip)
           \/ IsMulticast(ip) \/ IsUnspecified(ip)) =>
            /\ ~isRoutableIP(ip)
            /\ ~Listed(ip)

\* what holds: the other classes are never listed, and a reserved IPv4
\* address is rejected when it is held in the 4-byte form
C29_FourByteForm ==
  \A ip \in HostIPs :
    (\/ ReservedIPv4(ip) /\ Len(ip) = 4
     \/ IsLoopback(ip) \/ IsLinkLocalUnicast(ip) \/ IsLinkLocalMulticast(ip)
     \/ IsMulticast(ip) \/ IsUnspecified(ip)) =>
      /\ ~isRoutableIP(ip)
      /\ (rip.called /\ \A i \in 1..Len(rip.addrs) : rip.addrs[i].ip = ip) => ~Listed(ip)

\* the host's only address is 240.0.0.1 in the 16-byte form, and run()
\* advertises it
C29_ReservedAdvertised ==
  /\ rip.called
  /\ rip.addrs = <<[ipnet |-> TRUE, ip |-> IPv4(240, 0, 0, 1)]>>
  /\ rip.apiHost = "240.0.0.1"

\* ---------------------------------------------------------------------------
\* The bootScript slice patchBinaries hands to every patchScript call
\* ---------------------------------------------------------------------------

\* bytes of the boot script, spare capacity of its backing array
MaxScriptLen == 2
MaxSpare == 2

\* the patchScript calls of one patchBinaries run
PatchCalls == 5

\* a slice is a backing array (arr, as long as the capacity) and a length
\* a variant of append that fills the backing array from its first byte
GoAppendFromStart(arr, len, more) ==
  IF len + Len(more) <= Len(arr)
    THEN LET a == [i \in 1..Len(arr) |-> IF i <= Len(more) THEN more[i] ELSE arr[i]]
         IN  [arr |-> a, slice |-> SubSeq(a, 1, len + Len(more))]
    ELSE [arr |-> arr, slice |-> SubSeq(arr, 1, len) \o more]

\* append(s, more...): within the capacity the elements are written into the
\* backing array behind s, else a new array is allocated and s's is left alone
GoAppend(arr, len, more) ==
  IF len + Len(more) <= Len(arr)
    THEN LET a == [i \in 1..Len(arr) |->
                     IF i > len /\ i <= len + Len(more) THEN more[i - len] ELSE arr[i]]
         IN  [arr |-> a, slice |-> SubSeq(a, 1, len + Len(more))]
    ELSE [arr |-> arr, slice |-> SubSeq(arr, 1, len) \o more]

\* buildBootScript: buf.Bytes(), a slice of the buffer with spare capacity
InitSlice ==
  /\ \E k \in 0..MaxScriptLen, spare \in 0..MaxSpare :
       \E script \in [1..k -> {97, 98}] :
         sl = [NoSlice EXCEPT !.arr = script \o BytesRepeat(0, spare),
                              !.len = k, !.script = script]
  /\ boot = NoBoot
  /\ svc = NoCall
  /\ machines = [id \in MachineIds |-> NoMachine]
  /\ bmc = <<>>
  /\ rip = NoRoutableIPs
  /\ ValidateIdle
  /\ OfferIdle
  /\ ProxyIdle
  /\ PatchIdle
  /\ ProviderIdle

\* one patchScript(source, destination, bootScript) of patchBinaries, on an
\* image whose placeholder window has the given length: the size check, the
\* padding appended to the parameter, the bytes copy() embeds
PatchScriptShared ==
  /\ sl.n < PatchCalls
  /\ sl.err = ErrNil
  /\ \E length \in 0..(MaxScriptLen + MaxSpare + 1) :
       IF ~ScriptFits(SubSeq(sl.arr, 1, sl.len), length)
         THEN sl' = [sl EXCEPT !.n = @ + 1, !.err = ErrScriptTooLarge]
         ELSE LET r == GoAppend(sl.arr, sl.len, BytesRepeat(Newline, length - sl.len))
              IN  sl' = [sl EXCEPT !.n = @ + 1, !.arr = r.arr,
                                   !.patched = SubSeq(r.slice, 1, length)]
  /\ UNCHANGED <<validateVars, offerVars, proxyVars, patchVars, providerVars,
                 bootVars, serviceVars, rip>>

NextSlice == PatchScriptShared

SpecSlice == InitSlice /\ [][NextSlice]_vars

\* the bytes the caller's bootScript shows
CallerScript == SubSeq(sl.arr, 1, sl.len)

\* C30: patchScript leaves the caller's script bytes alone: after any number
\* of calls sharing the slice its first len(script) bytes are what
\* buildBootScript returned, and every target embeds this script, followed
\* by newlines only
C30_ScriptUnchanged ==
  /\ CallerScript = sl.script
  /\ (sl.n > 0 /\ sl.patched # <<>>) =>
       /\ SubSeq(sl.patched, 1, sl.len) = sl.script
       /\ \A i \in (sl.len + 1)..Len(sl.patched) : sl.patched[i] = Newline

\* a later call, after earlier ones wrote padding into the spare capacity
C30_Witness ==
  /\ sl.n = PatchCalls
  /\ sl.err = ErrNil
  /\ sl.len = MaxScriptLen
  /\ Len(sl.arr) > sl.len
  /\ sl.arr[sl.len + 1] = Newline
  /\ Len(sl.patched) > Len(sl.arr)

====
